---- MODULE Spec2Model ----
(***************************************************************************)
(* Review orchestration engine of GITLAB-CODE-REVIEWER.                    *)
(*                                                                         *)
(*   TaskStore   core/task_manager.py   (Spec: the TaskManager interface   *)
(*               under arbitrary call sequences; SpecRun: the asynchronous *)
(*               submission path of api/main.py)                           *)
(*                                                                         *)
(* Strings of the program are TLA+ strings; Python's None is the string    *)
(* "None".  A store call (a Redis command) either succeeds or raises; a    *)
(* call that raises has not been applied.                                  *)
(***************************************************************************)
EXTENDS Integers, Sequences, FiniteSets, TLC

VARIABLES
    tasks,      \* TaskStore: task id -> stored task (the gitlab_reviewer:task:<id> keys)
    taskIndex,  \* TaskStore: the gitlab_reviewer:tasks index set
    lastCall,   \* history: the last TaskManager call, with the task it found
    run,        \* per task id: position and locals of execute_review_task
    unit,       \* per-file analysis: per file, the position and outcome of its unit
    semaphore,  \* per-file analysis: free permits of the asyncio.Semaphore
    batch,      \* per-file analysis: position and result of _per_file_analysis
    cache,      \* ReviewCache: the Redis keys of the three keyspaces, key -> value
    lastOp,     \* history: the last CacheService call, its arguments and what it returned
    saved,      \* history: per ledger arguments, the findings of the last save that succeeded
    written,    \* history: the arguments of the cache_review_result calls that succeeded
    repo,       \* GitLab: the number of files in the diff between the two branches
    uuid,       \* the number of review ids handed out by uuid.uuid4()
    lastReview, \* history: the last review_branch_comparison call, if it was the last step
    reply,      \* response repair: a completion response and what the repair made of it
    selection,  \* cost selector: a file list and what _optimize_for_cost returned for it
    saver,      \* ledger race: per run, the position and findings of its save_historical_issues call
    caller,     \* TaskStore: per concurrent caller, the TaskManager call it is in and its locals
    counter     \* esb_utils.counter: its fields, the clock, the threads in get_next, the pairs returned

\* what the actions of one part leave alone
notTask == <<unit, semaphore, batch, cache, lastOp, saved, written, repo, uuid, lastReview, reply, selection, saver, caller, counter>>

notFile == <<tasks, taskIndex, lastCall, run, cache, lastOp, saved, written, repo, uuid, lastReview, reply, selection, saver, caller, counter>>

notCache == <<tasks, taskIndex, lastCall, run, unit, semaphore, batch, repo, uuid, reply, selection, saver, caller, counter>>

notReview == <<tasks, taskIndex, lastCall, run, unit, semaphore, batch, reply, selection, saver, caller, counter>>

notPure == <<tasks, taskIndex, lastCall, run, unit, semaphore, batch, cache, lastOp, saved, written, repo, uuid, lastReview, saver, caller, counter>>

notCaller == <<lastCall, run, unit, semaphore, batch, cache, lastOp, saved, written, repo, uuid, lastReview, reply, selection, saver, counter>>

notCounter == <<tasks, taskIndex, lastCall, run, unit, semaphore, batch, cache, lastOp, saved, written, repo, uuid, lastReview, reply, selection, saver, caller>>

vars == <<tasks, taskIndex, lastCall, run, unit, semaphore, batch, cache, lastOp, saved, written, repo, uuid, lastReview, reply, selection, saver, caller, counter>>

(***************************************************************************)
(* Bounds of the model.                                                    *)
(***************************************************************************)
\* files in one batch of _per_file_analysis
NumFiles == 3

\* findings in one list handed to save_historical_issues
MaxFindings == 2

\* review ids (uuid4 values) in use
MaxReviews == 2

\* tokens in a completion response, the sample responses apart
MaxTokens == 3

\* milliseconds the clock of the response sequence generator goes through
MaxMs == 3

\* calls of Counter.get_next in one process
MaxCalls == 4

\* the findings and the suggestions of a file with many of them
ManyFindings == 16

ManySuggestions == 11

\* a batch of more than ten files
LargeBatch == 11

\* changes in one list handed to _filter_relevant_files
MaxChanges == 3

\* settings.max_files_per_review at most
MaxFilesPerReview == 2

\* elements in the findings and in the suggestions of a parsed result
MaxElements == 2

\* files in one list handed to _optimize_for_cost
MaxCostFiles == 3

\* settings.max_concurrent_file_reviews, scaled down to stay below NumFiles
MaxConcurrentFileReviews == 2

TaskIds == {"t1", "t2"}

Results == {"r1", "r2"}

(***************************************************************************)
(* core/task_manager.py                                                    *)
(***************************************************************************)
TaskStatus == [PENDING |-> "pending", RUNNING |-> "running", COMPLETED |-> "completed", FAILED |-> "failed"]

Terminal == {TaskStatus.COMPLETED, TaskStatus.FAILED}

\* the value of a task key that is not in the store
NoTask == [status |-> "absent", progress |-> 0, message |-> "None",
           result |-> "None", error |-> "None"]

\* Task(...) as built by create_task
NewTask == [status |-> TaskStatus.PENDING, progress |-> 0, message |-> "created",
            result |-> "None", error |-> "None"]

Min(a, b) == IF a < b THEN a ELSE b

Max(a, b) == IF a > b THEN a ELSE b

\* get_task: the stored task, or None when the key holds nothing
get_task(ts, id) == ts[id]

\* update_progress storing the progress argument as it came
update_progress_unclamped(ts, id, progress, message) ==
    LET task == get_task(ts, id) IN
    IF task = NoTask THEN ts
    ELSE [ts EXCEPT ![id] = [task EXCEPT !.status = TaskStatus.RUNNING,
                                         !.progress = progress,
                                         !.message = message]]

\* update_progress writing a task for an id that has none
update_progress_upserting(ts, id, progress, message) ==
    LET task == IF get_task(ts, id) = NoTask THEN NewTask ELSE get_task(ts, id) IN
    [ts EXCEPT ![id] = [task EXCEPT !.status = TaskStatus.RUNNING,
                                    !.progress = Min(100, Max(0, progress)),
                                    !.message = message]]

\* update_progress, after a get_task and a set that both succeeded
update_progress(ts, id, progress, message) ==
    LET task == get_task(ts, id) IN
    IF task = NoTask THEN ts
    ELSE [ts EXCEPT ![id] = [task EXCEPT !.status = TaskStatus.RUNNING,
                                         !.progress = Min(100, Max(0, progress)),
                                         !.message = message]]

\* complete_task, after a get_task and a set that both succeeded
complete_task(ts, id, result) ==
    LET task == get_task(ts, id) IN
    IF task = NoTask THEN ts
    ELSE [ts EXCEPT ![id] = [task EXCEPT !.status = TaskStatus.COMPLETED,
                                         !.progress = 100,
                                         !.message = "completed",
                                         !.result = result]]

\* fail_task putting the progress back to 0
fail_task_resetting(ts, id, error) ==
    LET task == get_task(ts, id) IN
    IF task = NoTask THEN ts
    ELSE [ts EXCEPT ![id] = [task EXCEPT !.status = TaskStatus.FAILED,
                                         !.progress = 0,
                                         !.message = "failed",
                                         !.error = error]]

\* fail_task, after a get_task and a set that both succeeded
fail_task(ts, id, error) ==
    LET task == get_task(ts, id) IN
    IF task = NoTask THEN ts
    ELSE [ts EXCEPT ![id] = [task EXCEPT !.status = TaskStatus.FAILED,
                                         !.message = "failed",
                                         !.error = error]]

\* what a call leaves in lastCall; arg is the progress argument of an
\* update_progress call and failAt the store call of it that failed
Call(op, id, before, raised) ==
    [op |-> op, id |-> id, before |-> before, raised |-> raised, arg |-> 0, failAt |-> 0]

NoCall == Call("none", "none", NoTask, FALSE)

(***************************************************************************)
(* The TaskManager interface, called in any order (Spec).  failAt is the   *)
(* store call of the method that raises (0: none).                         *)
(***************************************************************************)
CreateTask(id) ==
    \E failAt \in 0..2 :
        /\ tasks' = IF failAt = 1 THEN tasks ELSE [tasks EXCEPT ![id] = NewTask]
        /\ taskIndex' = IF failAt = 0 THEN taskIndex \cup {id} ELSE taskIndex
        /\ lastCall' = Call("create_task", id, tasks[id], failAt # 0)
        /\ UNCHANGED <<run, notTask>>

\* update_progress: the get of get_task, then, for a task that exists, the
\* set; a store call that fails raises out of update_progress.  Progress
\* arguments below, inside and above [0,100]
UpdateProgress(id) ==
    \E progress \in {0 - 5, 50, 150}, failAt \in 0..2 :
        LET raised == failAt = 1 \/ (failAt = 2 /\ tasks[id] # NoTask) IN
        /\ tasks' = IF raised THEN tasks ELSE update_progress(tasks, id, progress, "msg")
        /\ lastCall' = [Call("update_progress", id, tasks[id], raised)
                           EXCEPT !.arg = progress, !.failAt = failAt]
        /\ UNCHANGED <<taskIndex, run, notTask>>

CompleteTask(id) ==
    \E result \in Results, ok \in BOOLEAN :
        /\ tasks' = IF ok THEN complete_task(tasks, id, result) ELSE tasks
        /\ lastCall' = Call("complete_task", id, tasks[id], ~ok)
        /\ UNCHANGED <<taskIndex, run, notTask>>

FailTask(id) ==
    \E error \in {"e1"}, ok \in BOOLEAN :
        /\ tasks' = IF ok THEN fail_task(tasks, id, error) ELSE tasks
        /\ lastCall' = Call("fail_task", id, tasks[id], ~ok)
        /\ UNCHANGED <<taskIndex, run, notTask>>

\* delete_task: delete of the task key, then srem from the index
DeleteTask(id) ==
    \E failAt \in 0..2 :
        /\ tasks' = IF failAt = 1 THEN tasks ELSE [tasks EXCEPT ![id] = NoTask]
        /\ taskIndex' = IF failAt = 0 THEN taskIndex \ {id} ELSE taskIndex
        /\ lastCall' = Call("delete_task", id, tasks[id], failAt # 0)
        /\ UNCHANGED <<run, notTask>>

(***************************************************************************)
(* core/cache_service.py.  A string that may hold ':' is the sequence of   *)
(* its ':'-free pieces, so that the f-string "{a}:{b}" is the              *)
(* concatenation a \o b; None is the empty sequence and "" is <<"">>.      *)
(* A key is a prefix and the hashed components; sha256(...)[:16] is taken  *)
(* to be free of collisions.  A dict key that is absent holds "MISSING"    *)
(* (line_number: -1).  json.dumps / json.loads of the stored values (dicts *)
(* with string keys, lists, strings, numbers) gives the value back.        *)
(***************************************************************************)
NoneStr == << >>

\* "if task_id:" - neither None nor the empty string
Truthy(str) == str # NoneStr /\ str # <<"">>

Sha16(components) == components

\* a review key made without the commit
generate_review_cache_key_by_branch(project_id, source_commit, target_branch, review_type, task_id) ==
    <<"review:cache">> \o
    Sha16(IF Truthy(task_id)
          THEN project_id \o target_branch \o <<review_type>> \o task_id
          ELSE project_id \o target_branch \o <<review_type>>)

\* review:cache:<hash>, with the commit in the components
generate_review_cache_key(project_id, source_commit, target_branch, review_type, task_id) ==
    <<"review:cache">> \o
    Sha16(IF Truthy(task_id)
          THEN project_id \o source_commit \o target_branch \o <<review_type>> \o task_id
          ELSE project_id \o source_commit \o target_branch \o <<review_type>>)

\* review:history:<hash>
generate_history_key(project_id, target_branch, task_id) ==
    <<"review:history">> \o
    Sha16(IF Truthy(task_id)
          THEN project_id \o target_branch \o task_id
          ELSE project_id \o target_branch)

\* review:dedup:<hash>, task_part = task_id or ""
generate_duplicate_key(project_id, source_branch, target_branch, task_id) ==
    <<"review:dedup">> \o
    Sha16(project_id \o source_branch \o target_branch
          \o (IF Truthy(task_id) THEN task_id ELSE <<"">>))

\* REVIEW_TYPES.keys(), two of the four
ReviewTypes == {"full", "quick"}

\* a review result dict; review_type "None": the dict has no such key
Result(review_id, review_type, findings) ==
    [review_id |-> review_id, review_type |-> review_type,
     findings |-> findings, from_cache |-> FALSE]

\* None where a result dict is expected
NoResult == Result(0, "None", << >>)

Finding(filename, type, line_number, severity, description, suggestion) ==
    [filename |-> filename, type |-> type, line_number |-> line_number,
     severity |-> severity, description |-> description, suggestion |-> suggestion]

\* the findings of the model: three of file F, the second with no line
\* number and no suggestion, and one with no key at all
FindingPool ==
    { Finding("F", "bug", 3, "high", "dA", "sA"),
      Finding("F", "style", 0 - 1, "low", "dB", "MISSING"),
      Finding("F", "perf", 7, "medium", "dC", "sC"),
      Finding("MISSING", "MISSING", 0 - 1, "MISSING", "MISSING", "MISSING") }

FindingLists == UNION { [1..n -> FindingPool] : n \in 0..MaxFindings }

\* dict.get(key, default)
DictGet(value, default) == IF value = "MISSING" THEN default ELSE value

\* issue_summary of save_historical_issues
IssueSummary(finding) ==
    [type |-> DictGet(finding.type, "unknown"),
     line_number |-> IF finding.line_number = 0 - 1 THEN 0 ELSE finding.line_number,
     severity |-> DictGet(finding.severity, "low"),
     description |-> DictGet(finding.description, ""),
     suggestion |-> DictGet(finding.suggestion, "")]

EmptyMap == [name \in {} |-> << >>]

RECURSIVE IssuesByFile(_, _)
\* the loop of save_historical_issues over findings, from issues_by_file = acc
IssuesByFile(findings, acc) ==
    IF findings = << >> THEN acc
    ELSE LET filename == DictGet(Head(findings).filename, "unknown")
             summary  == IssueSummary(Head(findings))
         IN  IssuesByFile(Tail(findings),
                          IF filename \in DOMAIN acc
                          THEN [acc EXCEPT ![filename] = Append(@, summary)]
                          ELSE [name \in DOMAIN acc \cup {filename} |->
                                   IF name = filename THEN <<summary>> ELSE acc[name]])

\* the state of the store connection seen by one CacheService call: the
\* client is there and answers, there is no client (get_redis_client gives
\* None), or the store call raises
Conns == {"ok", "down", "error"}

\* what a CacheService method comes to: whether it raised, what it
\* returned, and the store it leaves
Ret(raised, ret, store) == [raised |-> raised, ret |-> ret, cache |-> store]

\* redis get
Stored(store, key, default) == IF key \in DOMAIN store THEN store[key] ELSE default

\* redis setex
SetEx(store, key, value) ==
    [k \in DOMAIN store \cup {key} |-> IF k = key THEN value ELSE store[k]]

\* redis delete of a set of keys
Delete(store, keys) == [k \in DOMAIN store \ keys |-> store[k]]

get_cached_review(store, project_id, source_commit, target_branch, review_type, task_id, conn) ==
    IF conn # "ok" THEN Ret(FALSE, NoResult, store)
    ELSE LET cache_key == generate_review_cache_key(project_id, source_commit,
                                                    target_branch, review_type, task_id)
         IN  IF cache_key \in DOMAIN store
             THEN Ret(FALSE, [store[cache_key] EXCEPT !.from_cache = TRUE], store)
             ELSE Ret(FALSE, NoResult, store)

cache_review_result(store, project_id, source_commit, target_branch, review_type, review_result, task_id, conn) ==
    IF conn # "ok" THEN Ret(FALSE, FALSE, store)
    ELSE Ret(FALSE, TRUE,
             SetEx(store, generate_review_cache_key(project_id, source_commit, target_branch,
                                                    review_type, task_id), review_result))

\* get_historical_issues without its except clause
get_historical_issues_raising(store, project_id, target_branch, task_id, conn) ==
    IF conn = "down" THEN Ret(FALSE, EmptyMap, store)
    ELSE IF conn = "error" THEN Ret(TRUE, EmptyMap, store)
    ELSE Ret(FALSE, Stored(store, generate_history_key(project_id, target_branch, task_id),
                           EmptyMap), store)

get_historical_issues(store, project_id, target_branch, task_id, conn) ==
    IF conn # "ok" THEN Ret(FALSE, EmptyMap, store)
    ELSE Ret(FALSE, Stored(store, generate_history_key(project_id, target_branch, task_id),
                           EmptyMap), store)

\* save_historical_issues with issues_by_file started from the stored map
save_historical_issues_merging(store, project_id, target_branch, findings, task_id, conn) ==
    IF conn # "ok" THEN Ret(FALSE, FALSE, store)
    ELSE Ret(FALSE, TRUE,
             SetEx(store, generate_history_key(project_id, target_branch, task_id),
                   IssuesByFile(findings,
                                Stored(store, generate_history_key(project_id, target_branch,
                                                                   task_id), EmptyMap))))

save_historical_issues(store, project_id, target_branch, findings, task_id, conn) ==
    IF conn # "ok" THEN Ret(FALSE, FALSE, store)
    ELSE Ret(FALSE, TRUE,
             SetEx(store, generate_history_key(project_id, target_branch, task_id),
                   IssuesByFile(findings, EmptyMap)))

get_duplicate_review(store, project_id, source_branch, target_branch, task_id, conn) ==
    IF conn # "ok" THEN Ret(FALSE, NoResult, store)
    ELSE LET dup_key == generate_duplicate_key(project_id, source_branch, target_branch, task_id)
         IN  IF dup_key \in DOMAIN store
             THEN Ret(FALSE, [store[dup_key] EXCEPT !.from_cache = TRUE], store)
             ELSE Ret(FALSE, NoResult, store)

cache_duplicate_review(store, project_id, source_branch, target_branch, review_result, task_id, conn) ==
    IF conn # "ok" THEN Ret(FALSE, FALSE, store)
    ELSE Ret(FALSE, TRUE,
             SetEx(store, generate_duplicate_key(project_id, source_branch, target_branch,
                                                 task_id), review_result))

\* clear_review_cache; review_type "None": every review type.  On "error"
\* the deletes of the review types in done were applied before one raised.
clear_review_cache(store, project_id, source_commit, target_branch, review_type, task_id, conn, done) ==
    LET types == IF review_type = "None" THEN ReviewTypes ELSE {review_type}
        Keys(ts) == { generate_review_cache_key(project_id, source_commit, target_branch,
                                                rt, task_id) : rt \in ts }
    IN  IF conn = "down" THEN Ret(FALSE, FALSE, store)
        ELSE IF conn = "error" THEN Ret(FALSE, FALSE, Delete(store, Keys(done \cap types)))
        ELSE Ret(FALSE, TRUE, Delete(store, Keys(types)))

health_check(store, conn) == Ret(FALSE, conn = "ok", store)

Op(op, args, conn, before, r) ==
    [op |-> op, args |-> args, conn |-> conn, before |-> before,
     raised |-> r.raised, ret |-> r.ret]

NoOp == Op("none", << >>, "ok", EmptyMap, Ret(FALSE, FALSE, << >>))

(***************************************************************************)
(* core/reviewer.py, review_branch_comparison.  A call is one step: the    *)
(* duplicate check, the comparison of the branches, the read of the        *)
(* ledger, review_file_patches, and the two writes to the cache, each      *)
(* cache call with its own state of the store connection.                  *)
(***************************************************************************)
\* simple_ai_processor.py: line 622 reads basic_issues, whose only assignment (line 595) is commented out
BasicIssuesDefined == FALSE

\* _create_empty_review_result: a dict with no "review_type" key
create_empty_review_result(review_id) == Result(review_id, "None", << >>)

\* _build_review_result
build_review_result(review_id, review_type, findings) == Result(review_id, review_type, findings)

\* what compare_branches and analyze_merge_request come to
Outcome(kind, findings) == [kind |-> kind, findings |-> findings]

\* the findings an analysis returns
ReviewFindings == { << >>, <<Finding("F", "bug", 3, "high", "dA", "sA")>> }

\* the outcomes for a diff of so many files: GitLab fails; no file, no
\* analysis; one file, the whole-diff analysis, which may raise; more, the
\* per-file analysis, whose units give findings only if they return
Outcomes(diff) ==
    {Outcome("gitlab_error", << >>)} \cup
    (IF diff = 0 THEN {Outcome("ok", << >>)}
     ELSE IF diff = 1
          THEN {Outcome("ai_error", << >>)} \cup { Outcome("ok", f) : f \in ReviewFindings }
          ELSE { Outcome("ok", f) :
                   f \in IF BasicIssuesDefined THEN ReviewFindings ELSE {<< >>} })

\* dup: what the duplicate check got from the cache
Reviewed(raised, ret, store, fresh, kept, historical_issues, dup) ==
    [raised |-> raised, ret |-> ret, cache |-> store, fresh |-> fresh, kept |-> kept,
     historical_issues |-> historical_issues, dup |-> dup]

\* review_branch_comparison returning the duplicate entry whatever its review_type
review_branch_comparison_any_type(store, a, use_cache, conns, diff, outcome, review_id) ==
    LET r1  == get_duplicate_review(store, a[1], a[2], a[3], a[5], conns[1])
        dup == IF use_cache /\ ~r1.raised THEN r1.ret ELSE NoResult
        s1  == IF use_cache THEN r1.cache ELSE store
        r2  == get_historical_issues(s1, a[1], a[3], a[5], conns[2])
        historical_issues == IF use_cache /\ ~r2.raised THEN r2.ret ELSE EmptyMap
        result == IF diff = 0 THEN create_empty_review_result(review_id)
                  ELSE build_review_result(review_id, a[4], outcome.findings)
        r3  == cache_duplicate_review(s1, a[1], a[2], a[3], result, a[5], conns[3])
        s3  == IF use_cache THEN r3.cache ELSE s1
        keep == use_cache /\ result.findings # << >>
        r4  == save_historical_issues(s3, a[1], a[3], result.findings, a[5], conns[4])
    IN  IF dup # NoResult
        THEN Reviewed(FALSE, dup, s1, FALSE, FALSE, EmptyMap, dup)
        ELSE IF outcome.kind = "gitlab_error"
        THEN Reviewed(TRUE, NoResult, s1, FALSE, FALSE, EmptyMap, dup)
        ELSE IF outcome.kind = "ai_error"
        THEN Reviewed(TRUE, NoResult, s1, TRUE, FALSE, historical_issues, dup)
        ELSE Reviewed(FALSE, result, IF keep THEN r4.cache ELSE s3, TRUE,
                      keep /\ ~r4.raised /\ r4.ret = TRUE, historical_issues, dup)

\* review_branch_comparison comparing the branches before the duplicate check
review_branch_comparison_diff_first(store, a, use_cache, conns, diff, outcome, review_id) ==
    LET r1  == get_duplicate_review(store, a[1], a[2], a[3], a[5], conns[1])
        dup == IF use_cache /\ ~r1.raised THEN r1.ret ELSE NoResult
        s1  == IF use_cache THEN r1.cache ELSE store
        r2  == get_historical_issues(s1, a[1], a[3], a[5], conns[2])
        historical_issues == IF use_cache /\ ~r2.raised THEN r2.ret ELSE EmptyMap
        result == IF diff = 0 THEN create_empty_review_result(review_id)
                  ELSE build_review_result(review_id, a[4], outcome.findings)
        r3  == cache_duplicate_review(s1, a[1], a[2], a[3], result, a[5], conns[3])
        s3  == IF use_cache THEN r3.cache ELSE s1
        keep == use_cache /\ result.findings # << >>
        r4  == save_historical_issues(s3, a[1], a[3], result.findings, a[5], conns[4])
    IN  IF outcome.kind = "gitlab_error"
        THEN Reviewed(TRUE, NoResult, s1, FALSE, FALSE, EmptyMap, dup)
        ELSE IF dup # NoResult /\ dup.review_type = a[4]
        THEN Reviewed(FALSE, dup, s1, FALSE, FALSE, EmptyMap, dup)
        ELSE IF outcome.kind = "ai_error"
        THEN Reviewed(TRUE, NoResult, s1, TRUE, FALSE, historical_issues, dup)
        ELSE Reviewed(FALSE, result, IF keep THEN r4.cache ELSE s3, TRUE,
                      keep /\ ~r4.raised /\ r4.ret = TRUE, historical_issues, dup)

\* review_branch_comparison with the cache in use whatever use_cache says
review_branch_comparison_cache_on(store, a, use_cache, conns, diff, outcome, review_id) ==
    LET r1  == get_duplicate_review(store, a[1], a[2], a[3], a[5], conns[1])
        dup == IF ~r1.raised THEN r1.ret ELSE NoResult
        s1  == r1.cache
        r2  == get_historical_issues(s1, a[1], a[3], a[5], conns[2])
        historical_issues == IF ~r2.raised THEN r2.ret ELSE EmptyMap
        result == IF diff = 0 THEN create_empty_review_result(review_id)
                  ELSE build_review_result(review_id, a[4], outcome.findings)
        r3  == cache_duplicate_review(s1, a[1], a[2], a[3], result, a[5], conns[3])
        s3  == r3.cache
        keep == result.findings # << >>
        r4  == save_historical_issues(s3, a[1], a[3], result.findings, a[5], conns[4])
    IN  IF dup # NoResult /\ dup.review_type = a[4]
        THEN Reviewed(FALSE, dup, s1, FALSE, FALSE, EmptyMap, dup)
        ELSE IF outcome.kind = "gitlab_error"
        THEN Reviewed(TRUE, NoResult, s1, FALSE, FALSE, EmptyMap, dup)
        ELSE IF outcome.kind = "ai_error"
        THEN Reviewed(TRUE, NoResult, s1, TRUE, FALSE, historical_issues, dup)
        ELSE Reviewed(FALSE, result, IF keep THEN r4.cache ELSE s3, TRUE,
                      keep /\ ~r4.raised /\ r4.ret = TRUE, historical_issues, dup)

\* review_branch_comparison(project_id, target_branch, source_branch,
\* review_type, task_id, use_cache), a = <<project_id, source_branch,
\* target_branch, review_type, task_id>>; fresh: a review id was drawn;
\* kept: save_historical_issues stored the findings; an exception of a
\* cache call is caught and the call counts as a miss
review_branch_comparison(store, a, use_cache, conns, diff, outcome, review_id) ==
    LET r1  == get_duplicate_review(store, a[1], a[2], a[3], a[5], conns[1])
        dup == IF use_cache /\ ~r1.raised THEN r1.ret ELSE NoResult
        s1  == IF use_cache THEN r1.cache ELSE store
        r2  == get_historical_issues(s1, a[1], a[3], a[5], conns[2])
        historical_issues == IF use_cache /\ ~r2.raised THEN r2.ret ELSE EmptyMap
        result == IF diff = 0 THEN create_empty_review_result(review_id)
                  ELSE build_review_result(review_id, a[4], outcome.findings)
        r3  == cache_duplicate_review(s1, a[1], a[2], a[3], result, a[5], conns[3])
        s3  == IF use_cache THEN r3.cache ELSE s1
        keep == use_cache /\ result.findings # << >>
        r4  == save_historical_issues(s3, a[1], a[3], result.findings, a[5], conns[4])
    IN  IF dup # NoResult /\ dup.review_type = a[4]
        THEN Reviewed(FALSE, dup, s1, FALSE, FALSE, EmptyMap, dup)
        ELSE IF outcome.kind = "gitlab_error"
        THEN Reviewed(TRUE, NoResult, s1, FALSE, FALSE, EmptyMap, dup)
        ELSE IF outcome.kind = "ai_error"
        THEN Reviewed(TRUE, NoResult, s1, TRUE, FALSE, historical_issues, dup)
        ELSE Reviewed(FALSE, result, IF keep THEN r4.cache ELSE s3, TRUE,
                      keep /\ ~r4.raised /\ r4.ret = TRUE, historical_issues, dup)

\* no review_branch_comparison call was the last step
NoReview ==
    [args |-> << >>, use_cache |-> FALSE, store |-> "none", kind |-> "none",
     raised |-> FALSE, fresh |-> FALSE, ret |-> NoResult, historical_issues |-> EmptyMap,
     repeats |-> 0, dup |-> NoResult, received |-> EmptyMap]

\* what the analysis of one file of a diff of so many files is handed by
\* analyze_merge_request: on the per-file path (more than one file)
\* historical_issues.get(filename, []) and, if that list is not empty, the
\* prompt of the historical-issue mode; the whole-diff analyses take no
\* historical_issues
file_historical_issues(diff, filename, historical_issues) ==
    LET issues == IF diff > 1 /\ filename \in DOMAIN historical_issues
                  THEN historical_issues[filename] ELSE << >>
    IN  [historical_issues |-> issues,
         mode |-> IF issues # << >> THEN "verify_fix" ELSE "general"]

(***************************************************************************)
(* core/simple_ai_processor.py, the repair of a completion response.  A    *)
(* text is a sequence of tokens: the six JSON punctuation marks; the       *)
(* quoted strings "findings" (F), "suggestions" (S), a plain one such as   *)
(* "x" (q) and one with a word and a colon inside such as                  *)
(* "see http://x" (u); a bare word such as hello (w); the code fence of    *)
(* three backticks, bare (fence) or followed by json (fence_json); and a   *)
(* newline (nl).  Tokens follow each other with no space between them,     *)
(* two bare words apart.  The texts of the model hold no single quote, no  *)
(* brace inside a string and no empty string.                              *)
(***************************************************************************)
Fences == {"fence_json", "fence"}

Strings == {"F", "S", "q", "u"}

First(S) == CHOOSE i \in S : \A j \in S : i <= j

Last(S) == CHOOSE i \in S : \A j \in S : j <= i

\* str.find: the first index, from the given one on, that holds one of toks, 0 if none
Find(t, toks, from) ==
    LET S == { i \in from..Len(t) : t[i] \in toks }
    IN  IF S = {} THEN 0 ELSE First(S)

\* str.strip
strip(t) ==
    LET S == { i \in DOMAIN t : t[i] # "nl" }
    IN  IF S = {} THEN << >> ELSE SubSeq(t, First(S), Last(S))

RECURSIVE QuoteKeys(_)
\* the substitution for unquoted key names: a run of word characters before
\* a colon is put in quotes, a bare word as well as the word inside a
\* string or the json of a fence
QuoteKeys(t) ==
    IF t = << >> THEN << >>
    ELSE IF t[1] = "u" THEN <<"q", "w", "q">> \o QuoteKeys(Tail(t))
    ELSE IF Len(t) > 1 /\ t[2] = ":" /\ t[1] = "w" THEN <<"q">> \o QuoteKeys(Tail(t))
    ELSE IF Len(t) > 1 /\ t[2] = ":" /\ t[1] = "fence_json"
         THEN <<"fence", "q">> \o QuoteKeys(Tail(t))
    ELSE <<t[1]>> \o QuoteKeys(Tail(t))

RECURSIVE DropTrailingCommas(_, _)
\* the substitutions for trailing commas: a comma, white space and a closer
\* become the closer
DropTrailingCommas(t, closer) ==
    IF t = << >> THEN << >>
    ELSE LET S == { i \in 2..Len(t) : t[i] # "nl" }
         IN  IF t[1] = "," /\ S # {} /\ t[First(S)] = closer
             THEN <<closer>> \o DropTrailingCommas(SubSeq(t, First(S) + 1, Len(t)), closer)
             ELSE <<t[1]>> \o DropTrailingCommas(Tail(t), closer)

fix_common_json_issues(json_str) ==
    LET s0 == strip(json_str)
        a  == Find(s0, {"{"}, 1)
        S  == { i \in DOMAIN s0 : s0[i] = "}" /\ i > a }
        s1 == IF s0 # << >> /\ s0[1] # "{" /\ a > 0 /\ S # {}
              THEN SubSeq(s0, a, Last(S)) ELSE s0
    IN  DropTrailingCommas(DropTrailingCommas(QuoteKeys(s1), "}"), "]")

extract_json_from_response(response) ==
    LET r    == strip(response)
        j    == Find(r, {"fence_json"}, 1)
        end  == IF j = 0 THEN 0 ELSE Find(r, Fences, j + 1)
        nls  == { i \in DOMAIN r : r[i] = "nl" }
        open == Find(r, {"{"}, 1)
        Depth(i) == Cardinality({ k \in open..i : r[k] = "{" })
                      - Cardinality({ k \in open..i : r[k] = "}" })
        closes == { i \in open..Len(r) : open > 0 /\ Depth(i) = 0 }
    IN  IF j > 0 /\ end > 0
        THEN fix_common_json_issues(strip(SubSeq(r, j + 1, end - 1)))
        ELSE IF r # << >> /\ r[1] \in Fences /\ r[Len(r)] = "fence" /\ Cardinality(nls) > 1
        THEN fix_common_json_issues(strip(SubSeq(r, First(nls) + 1, Last(nls) - 1)))
        ELSE IF closes # {}
        THEN fix_common_json_issues(SubSeq(r, open, First(closes)))
        ELSE fix_common_json_issues(r)

\* a parsed JSON value: a string, a list of values, a dict of keys and values
Value(kind, text, keys, items) ==
    [kind |-> kind, text |-> text, keys |-> keys, items |-> items]

Parsed(ok, value, rest) == [ok |-> ok, value |-> value, rest |-> rest]

\* json.JSONDecodeError
Failed == Parsed(FALSE, Value("none", "", << >>, << >>), << >>)

RECURSIVE ParseValue(_), ParseElements(_, _), ParseMembers(_, _, _)
\* the JSON grammar: a value at the head of t, and what follows it
ParseValue(t) ==
    IF t = << >> THEN Failed
    ELSE IF t[1] \in Strings
    THEN Parsed(TRUE, Value("str", t[1], << >>, << >>), Tail(t))
    ELSE IF t[1] = "["
    THEN IF Len(t) > 1 /\ t[2] = "]"
         THEN Parsed(TRUE, Value("list", "", << >>, << >>), SubSeq(t, 3, Len(t)))
         ELSE ParseElements(Tail(t), << >>)
    ELSE IF t[1] = "{"
    THEN IF Len(t) > 1 /\ t[2] = "}"
         THEN Parsed(TRUE, Value("dict", "", << >>, << >>), SubSeq(t, 3, Len(t)))
         ELSE ParseMembers(Tail(t), << >>, << >>)
    ELSE Failed

ParseElements(t, items) ==
    LET p == ParseValue(t)
    IN  IF ~p.ok \/ p.rest = << >> THEN Failed
        ELSE IF p.rest[1] = "," THEN ParseElements(Tail(p.rest), Append(items, p.value))
        ELSE IF p.rest[1] = "]"
        THEN Parsed(TRUE, Value("list", "", << >>, Append(items, p.value)), Tail(p.rest))
        ELSE Failed

ParseMembers(t, keys, items) ==
    IF Len(t) < 2 \/ t[1] \notin Strings \/ t[2] # ":" THEN Failed
    ELSE LET p == ParseValue(SubSeq(t, 3, Len(t)))
         IN  IF ~p.ok \/ p.rest = << >> THEN Failed
             ELSE IF p.rest[1] = ","
             THEN ParseMembers(Tail(p.rest), Append(keys, t[1]), Append(items, p.value))
             ELSE IF p.rest[1] = "}"
             THEN Parsed(TRUE, Value("dict", "", Append(keys, t[1]), Append(items, p.value)),
                         Tail(p.rest))
             ELSE Failed

\* json.loads: white space between tokens is skipped, the whole text is one value
json_loads(t) ==
    LET p == ParseValue(SelectSeq(t, LAMBDA x : x # "nl"))
    IN  IF p.ok /\ p.rest = << >> THEN p ELSE Failed

\* the dict a repair returns
Repaired(findings, suggestions) == [findings |-> findings, suggestions |-> suggestions]

\* a validation that keeps the severity it finds
validate_and_fix_result_unchecked(result) ==
    LET List(key) ==
            LET S == { i \in DOMAIN result.keys : result.keys[i] = key }
            IN  IF result.kind = "dict" /\ S # {} /\ result.items[Last(S)].kind = "list"
                THEN result.items[Last(S)].items ELSE << >>
        Get(d, key, default) ==
            LET S == { i \in DOMAIN d.keys : d.keys[i] = key }
            IN  IF S = {} THEN Value("str", default, << >>, << >>) ELSE d.items[Last(S)]
        Severity(v) ==
            v
        Stripped(text) == IF text = " x " THEN "x" ELSE IF text = " " THEN "" ELSE text
        dicts == SelectSeq(List("F"), LAMBDA x : x.kind = "dict")
        strs  == SelectSeq(List("S"), LAMBDA x : x.kind = "str" /\ Stripped(x.text) # "")
    IN  Repaired([i \in 1..Len(dicts) |->
                     [fields      |-> dicts[i],
                      type        |-> Get(dicts[i], "type", "unknown"),
                      severity    |-> Severity(Get(dicts[i], "severity", "low")),
                      description |-> Get(dicts[i], "description", "default"),
                      filename    |-> Get(dicts[i], "filename", "MISSING")]],
                 [i \in 1..Len(strs) |-> Stripped(strs[i].text)])

\* _validate_and_fix_result: the list under a key (of a repeated key, the
\* last); the findings that are dicts, each with its type, severity and
\* description or their defaults, a severity other than high, medium and
\* low replaced by low; the suggestions that are strings and not blank,
\* stripped.  The strings with white space are " x " and " ".
validate_and_fix_result(result) ==
    LET List(key) ==
            LET S == { i \in DOMAIN result.keys : result.keys[i] = key }
            IN  IF result.kind = "dict" /\ S # {} /\ result.items[Last(S)].kind = "list"
                THEN result.items[Last(S)].items ELSE << >>
        Get(d, key, default) ==
            LET S == { i \in DOMAIN d.keys : d.keys[i] = key }
            IN  IF S = {} THEN Value("str", default, << >>, << >>) ELSE d.items[Last(S)]
        Severity(v) ==
            IF v.kind = "str" /\ v.text \in {"high", "medium", "low"} THEN v
            ELSE Value("str", "low", << >>, << >>)
        Stripped(text) == IF text = " x " THEN "x" ELSE IF text = " " THEN "" ELSE text
        dicts == SelectSeq(List("F"), LAMBDA x : x.kind = "dict")
        strs  == SelectSeq(List("S"), LAMBDA x : x.kind = "str" /\ Stripped(x.text) # "")
    IN  Repaired([i \in 1..Len(dicts) |->
                     [fields      |-> dicts[i],
                      type        |-> Get(dicts[i], "type", "unknown"),
                      severity    |-> Severity(Get(dicts[i], "severity", "low")),
                      description |-> Get(dicts[i], "description", "default"),
                      filename    |-> Get(dicts[i], "filename", "MISSING")]],
                 [i \in 1..Len(strs) |-> Stripped(strs[i].text)])

\* the loop that sets finding["filename"] on the findings of a validated result
with_filename(result, filename) ==
    [result EXCEPT !.findings =
        [i \in DOMAIN @ |-> [@[i] EXCEPT !.filename = Value("str", filename, << >>, << >>)]]]

\* what re.search finds between the brackets of "key": [...], the shortest
\* such text of the leftmost match, or the empty text
ArrayContent(t, key) ==
    LET After(i) == LET S == { k \in (i + 1)..Len(t) : t[k] # "nl" }
                    IN  IF i = 0 \/ S = {} THEN 0 ELSE First(S)
        Bracket(i) == IF After(i) > 0 /\ t[After(i)] = ":" /\ After(After(i)) > 0
                         /\ t[After(After(i))] = "["
                      THEN After(After(i)) ELSE 0
        S == { i \in DOMAIN t : t[i] = key /\ Bracket(i) > 0
                                /\ Find(t, {"]"}, Bracket(i) + 1) > 0 }
    IN  IF S = {} THEN << >>
        ELSE SubSeq(t, Bracket(First(S)) + 1, Find(t, {"]"}, Bracket(First(S)) + 1) - 1)

\* the text {"findings": [...], "suggestions": [...]}
Document(findings_content, suggestions_content) ==
    <<"{", "F", ":", "[">> \o findings_content \o <<"]", ",", "S", ":", "[">>
        \o suggestions_content \o <<"]", "}">>

aggressive_json_fix(json_str) ==
    IF strip(json_str) = << >> THEN Document(<< >>, << >>)
    ELSE fix_common_json_issues(Document(ArrayContent(json_str, "F"),
                                         ArrayContent(json_str, "S")))

\* _ai_single_file_analysis from cleaned_response on: parse, on a decode
\* error parse the aggressive fix, on a second error the default with the
\* diagnostic suggestion; then validate
parse_response(response, filename) ==
    LET cleaned_response == extract_json_from_response(response)
        first  == json_loads(cleaned_response)
        second == json_loads(aggressive_json_fix(cleaned_response))
    IN  IF first.ok THEN with_filename(validate_and_fix_result(first.value), filename)
        ELSE IF second.ok THEN with_filename(validate_and_fix_result(second.value), filename)
        ELSE Repaired(<< >>, <<"AI analysis failed, JSON parse error">>)

NoReply ==
    [pc |-> "none", response |-> << >>, result |-> Repaired(<< >>, << >>),
     parsed |-> Failed.value, filename |-> "None"]

(***************************************************************************)
(* core/ai_processor.py, the cost selector.  Money is in 1/100000 of a     *)
(* dollar and a file's tokens are whole thousands, so that estimate_cost   *)
(* is exact; a filename is the sequence of its '.'-free pieces.            *)
(***************************************************************************)
\* MODEL_COSTS per 1K tokens, three of the five models
MODEL_COSTS ==
    [model \in {"gpt-4", "gpt-4-turbo", "gpt-3.5-turbo"} |->
        IF model = "gpt-4" THEN [input |-> 3000, output |-> 6000]
        ELSE IF model = "gpt-4-turbo" THEN [input |-> 1000, output |-> 3000]
        ELSE [input |-> 100, output |-> 200]]

\* TokenManager.estimate_cost with output_tokens = 1000
estimate_cost(model, input_ktokens) ==
    LET costs == IF model \in DOMAIN MODEL_COSTS THEN MODEL_COSTS[model]
                 ELSE [input |-> 1000, output |-> 3000]
    IN  input_ktokens * costs.input + costs.output

\* FILE_PRIORITY by extension, three of its entries
FILE_PRIORITY ==
    [ext \in {"py", "md", "lock"} |-> IF ext = "py" THEN 10 ELSE IF ext = "md" THEN 3 ELSE 0]

get_file_importance(file_patch) ==
    LET ext == IF Len(file_patch.filename) > 1
               THEN file_patch.filename[Len(file_patch.filename)] ELSE ""
        base_priority == IF ext \in DOMAIN FILE_PRIORITY THEN FILE_PRIORITY[ext] ELSE 5
    IN  IF file_patch.change_size > 100 THEN base_priority + 2
        ELSE IF file_patch.change_size > 50 THEN base_priority + 1
        ELSE base_priority

RECURSIVE sorted_files(_)
\* sorted(diff_files, key=get_file_importance, reverse=True): stable
sorted_files(diff_files) ==
    IF diff_files = << >> THEN << >>
    ELSE LET top == First({ i \in DOMAIN diff_files :
                              \A j \in DOMAIN diff_files :
                                 get_file_importance(diff_files[j])
                                     <= get_file_importance(diff_files[i]) })
         IN  <<diff_files[top]>> \o
             sorted_files(SubSeq(diff_files, 1, top - 1)
                          \o SubSeq(diff_files, top + 1, Len(diff_files)))

RECURSIVE TotalTokens(_)
TotalTokens(diff_files) ==
    IF diff_files = << >> THEN 0
    ELSE Head(diff_files).ktokens + TotalTokens(Tail(diff_files))

RECURSIVE SelectWithin(_, _, _, _)
\* the loop over sorted_files, from current_cost, up to its break
SelectWithin(files, model, ceiling, current_cost) ==
    IF files = << >> THEN << >>
    ELSE LET file_cost == estimate_cost(model, Head(files).ktokens)
         IN  IF current_cost + file_cost <= ceiling
             THEN <<Head(files)>> \o SelectWithin(Tail(files), model, ceiling,
                                                  current_cost + file_cost)
             ELSE << >>

\* _optimize_for_cost under settings.enable_cost_optimization = enabled and
\* settings.max_cost_per_review = ceiling
optimize_for_cost(diff_files, model, ceiling, enabled) ==
    IF ~enabled THEN diff_files
    ELSE IF estimate_cost(model, TotalTokens(diff_files)) <= ceiling THEN diff_files
    ELSE SelectWithin(sorted_files(diff_files), model, ceiling, 0)

(***************************************************************************)
(* core/gitlab_client.py, the file filter.  A path is the sequence of its  *)
(* names and of the marks between them: "/", "backslash" and "."; a        *)
(* pattern is such a sequence with "*" for any run of characters.  An      *)
(* empty path is the empty string.                                         *)
(***************************************************************************)
\* is_ignored_by_path of _filter_relevant_files: the path of the change,
\* backslashes turned into slashes and the leading slashes stripped,
\* matches one of the patterns under fnmatch
is_ignored_by_path(change, ignored_patterns) ==
    LET file_path == IF change.new_path # << >> THEN change.new_path ELSE change.old_path
        replaced  == [k \in DOMAIN file_path |->
                         IF file_path[k] = "backslash" THEN "/" ELSE file_path[k]]
        rest      == { k \in DOMAIN replaced : replaced[k] # "/" }
        norm      == IF rest = {} THEN << >>
                     ELSE SubSeq(replaced, First(rest), Len(replaced))
        RECURSIVE fnmatch(_, _)
        fnmatch(name, pat) ==
            IF pat = << >> THEN name = << >>
            ELSE IF Head(pat) = "*"
            THEN fnmatch(name, Tail(pat)) \/ (name # << >> /\ fnmatch(Tail(name), pat))
            ELSE name # << >> /\ Head(name) = Head(pat) /\ fnmatch(Tail(name), Tail(pat))
    IN  \E k \in DOMAIN ignored_patterns : fnmatch(norm, ignored_patterns[k])

\* a filter that keeps a large change whatever its extension
filter_relevant_files_by_size(changes, ignored_patterns, smart_filtering, max_files) ==
    LET path_filtered == SelectSeq(changes, LAMBDA c : ~is_ignored_by_path(c, ignored_patterns))
        get_file_priority(c) ==
            LET dots == { k \in DOMAIN c.new_path : c.new_path[k] = "." }
                ext  == IF dots = {} THEN << >>
                        ELSE SubSeq(c.new_path, Last(dots) + 1, Len(c.new_path))
            IN  IF Len(ext) = 1 /\ ext[1] \in DOMAIN FILE_PRIORITY
                THEN FILE_PRIORITY[ext[1]] ELSE 5
        relevant == SelectSeq(path_filtered, LAMBDA c : get_file_priority(c) > 0 \/ c.change_size > 100)
        Rank(i) == Cardinality({ j \in DOMAIN relevant :
                        \/ get_file_priority(relevant[j]) > get_file_priority(relevant[i])
                        \/ /\ get_file_priority(relevant[j]) = get_file_priority(relevant[i])
                           /\ j < i }) + 1
        sorted == [k \in DOMAIN relevant |-> relevant[CHOOSE i \in DOMAIN relevant : Rank(i) = k]]
    IN  IF ~smart_filtering THEN SubSeq(path_filtered, 1, Min(max_files, Len(path_filtered)))
        ELSE SubSeq(sorted, 1, Min(max_files, Len(sorted)))

\* a filter that applies the patterns only with smart filtering
filter_relevant_files_smart_only(changes, ignored_patterns, smart_filtering, max_files) ==
    LET path_filtered == SelectSeq(changes, LAMBDA c : ~is_ignored_by_path(c, ignored_patterns))
        get_file_priority(c) ==
            LET dots == { k \in DOMAIN c.new_path : c.new_path[k] = "." }
                ext  == IF dots = {} THEN << >>
                        ELSE SubSeq(c.new_path, Last(dots) + 1, Len(c.new_path))
            IN  IF Len(ext) = 1 /\ ext[1] \in DOMAIN FILE_PRIORITY
                THEN FILE_PRIORITY[ext[1]] ELSE 5
        relevant == SelectSeq(path_filtered, LAMBDA c : get_file_priority(c) > 0)
        Rank(i) == Cardinality({ j \in DOMAIN relevant :
                        \/ get_file_priority(relevant[j]) > get_file_priority(relevant[i])
                        \/ /\ get_file_priority(relevant[j]) = get_file_priority(relevant[i])
                           /\ j < i }) + 1
        sorted == [k \in DOMAIN relevant |-> relevant[CHOOSE i \in DOMAIN relevant : Rank(i) = k]]
    IN  IF ~smart_filtering THEN SubSeq(changes, 1, Min(max_files, Len(changes)))
        ELSE SubSeq(sorted, 1, Min(max_files, Len(sorted)))

\* _filter_relevant_files under settings.ignore_path_patterns,
\* settings.smart_filtering and settings.max_files_per_review: the changes
\* not ignored by path; without smart filtering the first max_files of
\* them; with it those of a priority above 0, sorted by priority from high
\* to low, the sort stable, and the first max_files of these
filter_relevant_files(changes, ignored_patterns, smart_filtering, max_files) ==
    LET path_filtered == SelectSeq(changes, LAMBDA c : ~is_ignored_by_path(c, ignored_patterns))
        get_file_priority(c) ==
            LET dots == { k \in DOMAIN c.new_path : c.new_path[k] = "." }
                ext  == IF dots = {} THEN << >>
                        ELSE SubSeq(c.new_path, Last(dots) + 1, Len(c.new_path))
            IN  IF Len(ext) = 1 /\ ext[1] \in DOMAIN FILE_PRIORITY
                THEN FILE_PRIORITY[ext[1]] ELSE 5
        relevant == SelectSeq(path_filtered, LAMBDA c : get_file_priority(c) > 0)
        Rank(i) == Cardinality({ j \in DOMAIN relevant :
                        \/ get_file_priority(relevant[j]) > get_file_priority(relevant[i])
                        \/ /\ get_file_priority(relevant[j]) = get_file_priority(relevant[i])
                           /\ j < i }) + 1
        sorted == [k \in DOMAIN relevant |-> relevant[CHOOSE i \in DOMAIN relevant : Rank(i) = k]]
    IN  IF ~smart_filtering THEN SubSeq(path_filtered, 1, Min(max_files, Len(path_filtered)))
        ELSE SubSeq(sorted, 1, Min(max_files, Len(sorted)))

\* changes .. filtered: the last call of _filter_relevant_files
NoSelection ==
    [pc |-> "none", diff_files |-> << >>, model |-> "none", ceiling |-> 0,
     enabled |-> FALSE, selected |-> << >>,
     changes |-> << >>, ignored_patterns |-> << >>, smart_filtering |-> FALSE,
     max_files |-> 0, filtered |-> << >>]

\* the per-file analysis when no batch is in hand
NoUnit == [pc |-> "none", prep |-> "none", ai |-> "none"]

\* order: the files in the order in which their units ended
NoBatch == [pc |-> "none", aiAvailable |-> FALSE, findings |-> <<>>,
            failed_files |-> <<>>, score |-> 0, order |-> <<>>,
            units |-> <<>>, suggestions |-> <<>>, call |-> "none",
            summary |-> [kind |-> "none", counts |-> <<>>]]

NoRun == [pc |-> "none", mode |-> "none", refs |-> FALSE, exc |-> "None", result |-> "None"]

Init ==
    /\ tasks = [id \in TaskIds |-> NoTask]
    /\ taskIndex = {}
    /\ lastCall = NoCall
    /\ run = [id \in TaskIds |-> NoRun]
    /\ unit = [i \in 1..NumFiles |-> NoUnit]
    /\ semaphore = 0
    /\ batch = NoBatch
    /\ cache = [k \in {} |-> NoResult]
    /\ lastOp = NoOp
    /\ saved = [k \in {} |-> << >>]
    /\ written = {}
    /\ repo = 0
    /\ uuid = 0
    /\ lastReview = NoReview
    /\ reply = NoReply
    /\ selection = NoSelection
    /\ saver = [w \in 1..2 |-> [pc |-> "idle", findings |-> << >>, ret |-> FALSE]]
    /\ caller = [c \in 1..2 |-> [pc |-> "idle", op |-> "none", id |-> "none", task |-> NoTask,
                                 ids |-> {}, with |-> FALSE]]
    /\ counter = [value |-> 0, last_ms |-> 0, clock |-> 1,
                  thread |-> [t \in 1..2 |-> [pc |-> "idle", current_ms |-> 0]],
                  returned |-> << >>]

Next ==
    \E id \in TaskIds :
        \/ CreateTask(id)
        \/ UpdateProgress(id)
        \/ CompleteTask(id)
        \/ FailTask(id)
        \/ DeleteTask(id)

Spec == Init /\ [][Next]_vars

(***************************************************************************)
(* C1.  Once a task's stored status is completed or failed, no later call  *)
(* of update_progress, complete_task or fail_task on that id changes its   *)
(* stored status, progress, result or error.                               *)
(***************************************************************************)
Mutators == {"update_progress", "complete_task", "fail_task"}

Observed(t) == <<t.status, t.progress, t.result, t.error>>

C1_NoTransitionOutOfTerminal ==
    (lastCall.op \in Mutators /\ lastCall.before.status \in Terminal)
        => Observed(tasks[lastCall.id]) = Observed(lastCall.before)

\* C11: update_progress on an existing task stores min(100, max(0, p)) for
\* every progress argument p, and every stored task has 0 <= progress <= 100.
C11_ProgressClamped ==
    /\ \A id \in TaskIds : tasks[id].progress \in 0..100
    /\ (lastCall.op = "update_progress" /\ ~lastCall.raised /\ lastCall.before # NoTask)
          => tasks[lastCall.id].progress =
                IF lastCall.arg > 100 THEN 100 ELSE IF lastCall.arg < 0 THEN 0 ELSE lastCall.arg

\* update_progress(150) on an existing task has stored 100
C11_Witness ==
    /\ lastCall.op = "update_progress" /\ ~lastCall.raised /\ lastCall.before # NoTask
    /\ lastCall.arg = 150
    /\ tasks[lastCall.id].progress = 100

\* C14: create_task is idempotent by id: a first create_task(id) stores a
\* pending task with progress 0 and adds id to the index; a create_task(id)
\* for an id that has a stored task leaves that task's status, progress,
\* result and error as they were.
C14_CreateIdempotent ==
    (lastCall.op = "create_task" /\ ~lastCall.raised)
        => /\ lastCall.id \in taskIndex
           /\ IF lastCall.before = NoTask
              THEN tasks[lastCall.id].status = TaskStatus.PENDING /\ tasks[lastCall.id].progress = 0
              ELSE Observed(tasks[lastCall.id]) = Observed(lastCall.before)

\* C15: update_progress on an id that has no stored task returns without
\* raising once the store has answered the lookup, and leaves every stored
\* task and the task index as they were.
C15_UnknownIdNoOp ==
    [][(lastCall'.op = "update_progress" /\ lastCall'.failAt # 1
        /\ tasks[lastCall'.id] = NoTask)
          => /\ ~lastCall'.raised
             /\ tasks' = tasks
             /\ taskIndex' = taskIndex]_vars

\* update_progress was called for an id with no task while the other id has one
C15_Witness ==
    /\ lastCall.op = "update_progress" /\ lastCall.before = NoTask /\ ~lastCall.raised
    /\ tasks[lastCall.id] = NoTask
    /\ \E other \in TaskIds \ {lastCall.id} : tasks[other] # NoTask /\ other \in taskIndex

\* C16: a stored task has a result payload iff its status is completed, and
\* an error text iff its status is failed.
C16_PayloadMatchesStatus ==
    \A id \in TaskIds :
        tasks[id] # NoTask
            => /\ tasks[id].result # "None" <=> tasks[id].status = TaskStatus.COMPLETED
               /\ tasks[id].error # "None" <=> tasks[id].status = TaskStatus.FAILED

(***************************************************************************)
(* The sweeps of the index (SpecSweep), each run to its end with no other  *)
(* operation in between, or raising at its first store call.  In lastCall, *)
(* before is the index the sweep found and arg what it returned.           *)
(***************************************************************************)
\* get_all_tasks that leaves the ids without a task in the index
GetAllTasksKeeping ==
    \E ok \in BOOLEAN :
        /\ taskIndex' = taskIndex
        /\ lastCall' = [Call("get_all_tasks", "none", taskIndex, ~ok) EXCEPT
                           !.arg = IF ok
                                   THEN [id \in {i \in taskIndex : get_task(tasks, i) # NoTask} |->
                                            get_task(tasks, id)]
                                   ELSE << >>]
        /\ UNCHANGED <<tasks, run, notTask>>

\* get_all_tasks: the tasks of the ids of the index; an id whose task is
\* not there is removed from the index
GetAllTasks ==
    \E ok \in BOOLEAN :
        LET found == {id \in taskIndex : get_task(tasks, id) # NoTask} IN
        /\ taskIndex' = IF ok THEN found ELSE taskIndex
        /\ lastCall' = [Call("get_all_tasks", "none", taskIndex, ~ok) EXCEPT
                           !.arg = IF ok THEN [id \in found |-> get_task(tasks, id)] ELSE << >>]
        /\ UNCHANGED <<tasks, run, notTask>>

\* cleanup_old_tasks: an id of the index whose task is not there is removed
\* from the index; a task older than max_age_hours (those of old) is deleted
\* by delete_task, key and index entry
CleanupOldTasks ==
    \E ok \in BOOLEAN, old \in SUBSET TaskIds :
        LET found == {id \in taskIndex : get_task(tasks, id) # NoTask} IN
        /\ taskIndex' = IF ok THEN found \ old ELSE taskIndex
        /\ tasks' = IF ok
                    THEN [id \in TaskIds |-> IF id \in found \cap old THEN NoTask ELSE tasks[id]]
                    ELSE tasks
        /\ lastCall' = Call("cleanup_old_tasks", "none", taskIndex, ~ok)
        /\ UNCHANGED <<run, notTask>>

\* tasks are created, completed and deleted, with store calls that fail,
\* and the index is swept
SpecSweep ==
    /\ Init
    /\ [][
        \/ \E id \in TaskIds : CreateTask(id) \/ CompleteTask(id) \/ DeleteTask(id)
        \/ GetAllTasks
        \/ CleanupOldTasks
       ]_vars

\* C24: the sweep cleans the index: after cleanup_old_tasks or get_all_tasks
\* has run to its end, every id left in the index has a stored task, and
\* get_all_tasks returns exactly the stored tasks whose ids are in the index.
C24_SweepCleansIndex ==
    (lastCall.op \in {"get_all_tasks", "cleanup_old_tasks"} /\ ~lastCall.raised)
        => /\ \A id \in taskIndex : tasks[id] # NoTask
           /\ lastCall.op = "get_all_tasks"
                 => lastCall.arg = [id \in taskIndex |-> tasks[id]]

\* a sweep found in the index an id without a task, and one with a task
C24_Witness ==
    /\ lastCall.op \in {"get_all_tasks", "cleanup_old_tasks"} /\ ~lastCall.raised
    /\ \E id \in lastCall.before : tasks[id] = NoTask /\ id \notin taskIndex
    /\ taskIndex # {}

(***************************************************************************)
(* api/main.py: async_review and the background run execute_review_task    *)
(* (SpecRun).  One action per await of the run; a store call of a step     *)
(* either succeeds or raises.                                              *)
(***************************************************************************)
Modes == {"mr", "branch_compare", "bogus"}

RunDone == {"done", "crashed"}

SetRun(id, pc, exc, result) ==
    run' = [run EXCEPT ![id] = [@ EXCEPT !.pc = pc, !.exc = exc, !.result = result]]

\* async_review: create_task, then background_tasks.add_task(execute_review_task)
async_review(id) ==
    /\ run[id].pc = "none"
    /\ tasks[id] = NoTask
    /\ \E failAt \in 0..2, mode \in Modes, refs \in BOOLEAN :
        /\ tasks' = IF failAt = 1 THEN tasks ELSE [tasks EXCEPT ![id] = NewTask]
        /\ taskIndex' = IF failAt = 0 THEN taskIndex \cup {id} ELSE taskIndex
        /\ lastCall' = Call("create_task", id, tasks[id], failAt # 0)
        /\ run' = [run EXCEPT ![id] =
                     IF failAt # 0 THEN [NoRun EXCEPT !.pc = "rejected"]
                     ELSE [NoRun EXCEPT !.pc = "progress10", !.mode = mode, !.refs = refs]]
    /\ UNCHANGED notTask

\* one "await update_progress(progress, ...)" of the run, then on to pc next
RunProgress(id, at, progress, next) ==
    /\ run[id].pc = at
    /\ \E ok \in BOOLEAN :
        /\ tasks' = IF ok THEN update_progress(tasks, id, progress, "msg") ELSE tasks
        /\ lastCall' = Call("update_progress", id, tasks[id], ~ok)
        /\ IF ok THEN SetRun(id, next, "None", run[id].result)
           ELSE SetRun(id, "except", "store", run[id].result)
    /\ UNCHANGED <<taskIndex, notTask>>

\* reviewer = GitLabReviewer(...)
RunCreateReviewer(id) ==
    /\ run[id].pc = "reviewer"
    /\ \E ok \in BOOLEAN :
        IF ok THEN SetRun(id, "progress20", "None", "None")
        ELSE SetRun(id, "except", "init", "None")
    /\ UNCHANGED <<tasks, taskIndex, lastCall, notTask>>

\* the mode dispatch and its ValueErrors
RunValidate(id) ==
    /\ run[id].pc = "validate"
    /\ IF run[id].mode \in {"mr", "branch_compare"} /\ run[id].refs
       THEN SetRun(id, "progress30", "None", "None")
       ELSE SetRun(id, "except", "validation", "None")
    /\ UNCHANGED <<tasks, taskIndex, lastCall, notTask>>

\* await reviewer.review_merge_request / review_branch_comparison
RunReview(id) ==
    /\ run[id].pc = "review"
    /\ \/ \E result \in Results : SetRun(id, "progress90", "None", result)
       \/ SetRun(id, "except", "review", "None")
    /\ UNCHANGED <<tasks, taskIndex, lastCall, notTask>>

\* complete_task raising after its write has reached the store
RunCompleteRaisingLate(id) ==
    /\ run[id].pc = "complete"
    /\ tasks' = complete_task(tasks, id, run[id].result)
    /\ lastCall' = Call("complete_task", id, tasks[id], TRUE)
    /\ SetRun(id, "except", "store", run[id].result)
    /\ UNCHANGED <<taskIndex, notTask>>

\* await task_mgr.complete_task(task_id, result)
RunComplete(id) ==
    /\ run[id].pc = "complete"
    /\ \E ok \in BOOLEAN :
        /\ tasks' = IF ok THEN complete_task(tasks, id, run[id].result) ELSE tasks
        /\ lastCall' = Call("complete_task", id, tasks[id], ~ok)
        /\ IF ok THEN SetRun(id, "done", "None", run[id].result)
           ELSE SetRun(id, "except", "store", run[id].result)
    /\ UNCHANGED <<taskIndex, notTask>>

\* except Exception as e: await task_mgr.fail_task(task_id, str(e))
RunExcept(id) ==
    /\ run[id].pc = "except"
    /\ \E ok \in BOOLEAN :
        /\ tasks' = IF ok THEN fail_task(tasks, id, run[id].exc) ELSE tasks
        /\ lastCall' = Call("fail_task", id, tasks[id], ~ok)
        /\ SetRun(id, IF ok THEN "done" ELSE "crashed", run[id].exc, run[id].result)
    /\ UNCHANGED <<taskIndex, notTask>>

execute_review_task(id) ==
    \/ RunProgress(id, "progress10", 10, "reviewer")
    \/ RunCreateReviewer(id)
    \/ RunProgress(id, "progress20", 20, "validate")
    \/ RunValidate(id)
    \/ RunProgress(id, "progress30", 30, "review")
    \/ RunReview(id)
    \/ RunProgress(id, "progress90", 90, "complete")
    \/ RunComplete(id)
    \/ RunExcept(id)

SpecRun == Init /\ [][\E id \in TaskIds : async_review(id) \/ execute_review_task(id)]_vars

(***************************************************************************)
(* C2.  For every asynchronous submission, unless the process crashes, the *)
(* task eventually reaches completed or failed, also when the review       *)
(* raises or a task-store call fails during the run, and an error inside   *)
(* the run is recorded as a failed task before the run ends.  As a final   *)
(* result: a run that has ended left its task completed or failed.         *)
(***************************************************************************)
C2_EndedRunIsTerminal ==
    \A id \in TaskIds :
        run[id].pc \in RunDone => tasks[id].status \in Terminal

\* C34: a request that fails validation (a mode that is none of the two, or
\* a missing mr_id or branch) is rejected before any work begins: on the
\* asynchronous path no task of it is created or updated in the store.
C34_InvalidRejectedFirst ==
    \A id \in TaskIds :
        (/\ run[id].pc \notin {"none", "rejected"}
         /\ ~(run[id].mode \in {"mr", "branch_compare"} /\ run[id].refs))
            => /\ tasks[id] = NoTask
               /\ id \notin taskIndex

\* the review itself, the fetch of the diff and the completion calls, is
\* never begun for such a request
C34_NoReviewBegun ==
    \A id \in TaskIds :
        ~(run[id].mode \in {"mr", "branch_compare"} /\ run[id].refs)
            => run[id].pc \notin {"progress30", "review", "progress90", "complete"}

\* C13: progress reporting never aborts the review: an update_progress call
\* whose store call fails returns without raising, and the run that made it
\* goes on to the review instead of entering its exception handler.
C13_ProgressNeverAborts ==
    lastCall.op = "update_progress"
        => /\ ~lastCall.raised
           /\ run[lastCall.id].pc # "except"

C17_ProgressMonotone ==
    [][\A id \in TaskIds : tasks'[id].progress >= tasks[id].progress]_vars

\* a run that had stored progress 30 ended in fail_task
C17_Witness ==
    \E id \in TaskIds :
        /\ run[id].pc = "done" /\ run[id].exc # "None"
        /\ tasks[id].status = TaskStatus.FAILED
        /\ tasks[id].progress = 30

(***************************************************************************)
(* core/simple_ai_processor.py: _per_file_analysis (SpecFiles).  One unit  *)
(* per file under asyncio.Semaphore(max_concurrent_file_reviews); a unit   *)
(* is "calling" while its completion call is outstanding.  Scores are in   *)
(* tenths of a point.                                                      *)
(***************************************************************************)
Files == 1..NumFiles

\* FilePatchInfo.filename of the i-th file of diff_files
Filename(i) == <<"file", i>>

\* what a completion call can come to: an exception, or a parsed result
\* with no finding or with one finding of the given severity
AiOutcomes == {"fail", "nothing", "high", "medium", "low"}

\* the unit raised: the entry asyncio.gather(return_exceptions=True) keeps
Raised == [raised |-> TRUE, findings |-> <<>>, suggestions |-> <<>>]

\* the dict a unit returns
Returned(findings, suggestions) ==
    [raised |-> FALSE, findings |-> findings, suggestions |-> suggestions]

\* ai_result.get("findings", []) of _ai_single_file_analysis for file i
AiFindings(i, ai) ==
    IF ai \in {"high", "medium", "low"}
    THEN << [filename |-> Filename(i), severity |-> ai] >>
    ELSE << >>

\* _analyze_single_file from its try block on: prepare the content, the
\* guarded AI analysis, the log lines, the returned dict
analyze_single_file(i, prep, ai) ==
    IF prep = "raise" THEN Raised
    ELSE LET ai_findings == IF ai = "fail" THEN << >> ELSE AiFindings(i, ai) IN
         IF ~BasicIssuesDefined THEN Raised      \* NameError, re-raised at 633-636
         ELSE Returned(ai_findings, << >>)

\* a semaphore that does not hold a unit back
SemaphoreFreeUnbounded(sem) == TRUE

\* "async with semaphore" may enter
SemaphoreFree(sem) == sem > 0

\* _per_file_analysis up to the gather: the semaphore and the units
StartBatch ==
    /\ batch.pc = "none"
    /\ \E avail \in BOOLEAN : batch' = [NoBatch EXCEPT !.pc = "gather", !.aiAvailable = avail]
    /\ semaphore' = MaxConcurrentFileReviews
    /\ unit' = [i \in Files |-> [NoUnit EXCEPT !.pc = "waiting"]]
    /\ UNCHANGED notFile

\* a unit enters the semaphore and runs to its completion call; without a
\* call to make (no client, no content, or the preparation raised) it runs
\* to its end and leaves the semaphore in the same step
UnitEnter(i) ==
    /\ batch.pc = "gather"
    /\ unit[i].pc = "waiting"
    /\ SemaphoreFree(semaphore)
    /\ \E prep \in {"ok", "empty", "raise"} :
        IF prep = "ok" /\ batch.aiAvailable
        THEN /\ unit' = [unit EXCEPT ![i] = [pc |-> "calling", prep |-> prep, ai |-> "none"]]
             /\ semaphore' = semaphore - 1
             /\ batch' = batch
        ELSE /\ unit' = [unit EXCEPT ![i] = [pc |-> "done", prep |-> prep, ai |-> "none"]]
             /\ semaphore' = semaphore
             /\ batch' = [batch EXCEPT !.order = Append(@, i)]
    /\ UNCHANGED notFile

\* the completion call of a unit comes back; the unit ends and releases
UnitFinish(i) ==
    /\ unit[i].pc = "calling"
    /\ \E ai \in AiOutcomes :
        unit' = [unit EXCEPT ![i] = [@ EXCEPT !.pc = "done", !.ai = ai]]
    /\ semaphore' = semaphore + 1
    /\ batch' = [batch EXCEPT !.order = Append(@, i)]
    /\ UNCHANGED notFile

\* file_results[i] of the gather
FileResult(i) == analyze_single_file(i, unit[i].prep, unit[i].ai)

\* file_results of the gather over the files ids
FileResults(ids) == [k \in 1..Len(ids) |-> FileResult(ids[k])]

RECURSIVE ConcatFindings(_)
\* the aggregation loop over file_results: all_findings
ConcatFindings(file_results) ==
    IF file_results = << >> THEN << >>
    ELSE (IF Head(file_results).raised THEN << >> ELSE Head(file_results).findings)
         \o ConcatFindings(Tail(file_results))

RECURSIVE ConcatSuggestions(_)
\* the aggregation loop over file_results: all_suggestions
ConcatSuggestions(file_results) ==
    IF file_results = << >> THEN << >>
    ELSE (IF Head(file_results).raised THEN << >> ELSE Head(file_results).suggestions)
         \o ConcatSuggestions(Tail(file_results))

RECURSIVE FailedFiles(_, _)
\* the aggregation loop over file_results: failed_files, the names of the
\* files ids whose entry is an exception
FailedFiles(file_results, ids) ==
    IF file_results = << >> THEN << >>
    ELSE (IF Head(file_results).raised THEN << Filename(Head(ids)) >> ELSE << >>)
         \o FailedFiles(Tail(file_results), Tail(ids))

RECURSIVE SeverityPenalty(_)
\* the deduction loop of _calculate_overall_score, in tenths
SeverityPenalty(findings) ==
    IF findings = << >> THEN 0
    ELSE (IF Head(findings).severity = "high" THEN 10
          ELSE IF Head(findings).severity = "medium" THEN 5 ELSE 2)
         + SeverityPenalty(Tail(findings))

\* a score without its floor
calculate_overall_score_unfloored(all_findings, nfiles, failed_files) ==
    LET afterFindings == 80 - SeverityPenalty(all_findings)
        afterFailed   == afterFindings - 5 * Len(failed_files)
    IN  IF nfiles > 10 THEN afterFailed - 3 ELSE afterFailed

\* _calculate_overall_score(all_findings, diff_files, failed_files), in tenths
calculate_overall_score(all_findings, nfiles, failed_files) ==
    LET afterFindings == 80 - SeverityPenalty(all_findings)
        afterFailed   == afterFindings - 5 * Len(failed_files)
        afterCount    == IF nfiles > 10 THEN afterFailed - 3 ELSE afterFailed
    IN  Max(afterCount, 20)

\* a slice that keeps the whole list
Prefix_whole(seq, n) == seq

\* the first n elements of a list: seq[:n]
Prefix(seq, n) == SubSeq(seq, 1, Min(n, Len(seq)))

\* diff_files, as the list of its indices
DiffFiles == [i \in Files |-> i]

\* a gather that hands the results over in the order the units ended
gather_as_completed(diff_files, order) == order

\* asyncio.gather: the results in the order of the awaitables, that of diff_files
gather(diff_files, order) == diff_files

\* a summary whose completion call is not guarded
generate_global_summary_unguarded(ai_available, call, all_findings, all_suggestions) ==
    LET Count(sev) == Cardinality({k \in 1..Len(all_findings) : all_findings[k].severity = sev})
    IN  IF ~ai_available
        THEN [kind |-> "severity_counts", counts |-> << Count("high"), Count("medium") >>]
        ELSE IF call = "ok" THEN [kind |-> "llm", counts |-> << >>]
        ELSE [kind |-> "raised", counts |-> << >>]

\* _generate_global_summary: without a client the text of the high and
\* medium counts; else the stripped response of the completion call, and
\* when that call raises the text of the two totals
generate_global_summary(ai_available, call, all_findings, all_suggestions) ==
    LET Count(sev) == Cardinality({k \in 1..Len(all_findings) : all_findings[k].severity = sev})
    IN  IF ~ai_available
        THEN [kind |-> "severity_counts", counts |-> << Count("high"), Count("medium") >>]
        ELSE IF call = "ok" THEN [kind |-> "llm", counts |-> << >>]
        ELSE [kind |-> "totals", counts |-> << Len(all_findings), Len(all_suggestions) >>]

\* _per_file_analysis from the gather on: units holds what the unit of each
\* file came to, order the order the units ended in, call what the
\* completion call of the summary comes to
Return(units, order, ai_available, call) ==
    LET diff_files      == [i \in 1..Len(units) |-> i]
        awaited         == gather(diff_files, order)
        file_results    == [k \in 1..Len(units) |-> units[awaited[k]]]
        all_findings    == ConcatFindings(file_results)
        all_suggestions == ConcatSuggestions(file_results)
        failed_files    == FailedFiles(file_results, diff_files)
    IN  batch' = [batch EXCEPT
            !.pc = "done",
            !.units = units,
            !.order = order,
            !.aiAvailable = ai_available,
            !.call = IF ai_available THEN call ELSE "none",
            !.findings = Prefix(all_findings, 30),
            !.suggestions = Prefix(all_suggestions, 20),
            !.failed_files = failed_files,
            !.score = calculate_overall_score(all_findings, Len(diff_files), failed_files),
            !.summary = generate_global_summary(ai_available, call, all_findings, all_suggestions)]

\* the gather has every result: aggregate and return
Aggregate ==
    /\ batch.pc = "gather"
    /\ \A i \in Files : unit[i].pc = "done"
    /\ \E call \in {"ok", "fail"} :
        Return(FileResults(DiffFiles), batch.order, batch.aiAvailable, call)
    /\ UNCHANGED <<unit, semaphore, notFile>>

SpecFiles ==
    /\ Init
    /\ [][
        \/ StartBatch
        \/ \E i \in Files : UnitEnter(i) \/ UnitFinish(i)
        \/ Aggregate
       ]_vars

(***************************************************************************)
(* _per_file_analysis as a function of what its units come to              *)
(* (SpecAggregate): the gather and the aggregation loop, fed with every    *)
(* list of at most NumFiles unit outcomes in every order of completion,    *)
(* and with LargeBatch like outcomes.                                      *)
(***************************************************************************)
PerFileAnalysis ==
    LET UnitKinds == {"raise", "nothing", "high", "medium", "low", "many"}
        \* what the unit of file i hands to the gather: an exception, or a
        \* dict with its findings and suggestions
        UnitOutcome(i, kind) ==
            IF kind = "raise" THEN Raised
            ELSE IF kind = "many"
            THEN Returned([j \in 1..ManyFindings |-> [filename |-> Filename(i), severity |-> "low"]],
                          [j \in 1..ManySuggestions |-> Filename(i)])
            ELSE Returned(AiFindings(i, kind), IF kind = "nothing" THEN << >> ELSE << Filename(i) >>)
        \* the orders in which n units can end
        Orders(n) == {o \in [1..n -> 1..n] : \A a, b \in 1..n : o[a] = o[b] => a = b}
    IN
    /\ batch.pc = "none"
    /\ \E ai_available \in BOOLEAN, call \in {"ok", "fail"} :
        \/ \E n \in 1..NumFiles :
            \E kinds \in [1..n -> UnitKinds], order \in Orders(n) :
                Return([i \in 1..n |-> UnitOutcome(i, kinds[i])], order, ai_available, call)
        \/ \E kind \in UnitKinds \ {"many"} :
                Return([i \in 1..LargeBatch |-> UnitOutcome(i, kind)],
                       [i \in 1..LargeBatch |-> i], ai_available, call)
    /\ UNCHANGED <<unit, semaphore, notFile>>

SpecAggregate == Init /\ [][PerFileAnalysis]_vars

(***************************************************************************)
(* C5.  Bounded concurrency: with N files and worker width W < N, in every *)
(* reachable state at most W per-file units have an outstanding completion *)
(* call.                                                                   *)
(***************************************************************************)
Calling == {i \in Files : unit[i].pc = "calling"}

C5_BoundedConcurrency == Cardinality(Calling) <= MaxConcurrentFileReviews

\* the width is reached while a further unit still waits for a permit
C5_Witness ==
    /\ MaxConcurrentFileReviews < NumFiles
    /\ Cardinality(Calling) = MaxConcurrentFileReviews
    /\ \E i \in Files : unit[i].pc = "waiting"

(***************************************************************************)
(* C6.  Partial failure isolation: if the unit for file X fails while      *)
(* other units succeed, the aggregated result contains the findings of     *)
(* every successful unit, failed_files contains X, and the score is no     *)
(* higher than the score of the same batch with X left out.  A unit        *)
(* succeeds when nothing but its completion call went wrong: a failed      *)
(* completion call is absorbed by the unit (lines 605-612).                *)
(***************************************************************************)
InSeq(x, seq) == \E k \in 1..Len(seq) : seq[k] = x

Succeeds(i) == unit[i].prep # "raise"

Without(x) == SelectSeq(DiffFiles, LAMBDA i : i # x)

C6_PartialFailureIsolation ==
    batch.pc = "done" =>
        \A x \in Files :
            (unit[x].prep = "raise" /\ \E y \in Files : Succeeds(y)) =>
                /\ InSeq(Filename(x), batch.failed_files)
                /\ \A y \in Files :
                     Succeeds(y) =>
                        \A k \in 1..Len(AiFindings(y, unit[y].ai)) :
                            InSeq(AiFindings(y, unit[y].ai)[k], batch.findings)
                /\ batch.score <= calculate_overall_score(ConcatFindings(FileResults(Without(x))),
                                                         NumFiles - 1,
                                                         FailedFiles(FileResults(Without(x)), Without(x)))

\* C18: a per-file unit never propagates a failure of its completion call:
\* the unit of a file whose completion call failed returns a result with no
\* findings instead of raising.
C18_UnitAbsorbsCompletionFailure ==
    \A i \in Files :
        (unit[i].pc = "done" /\ unit[i].ai = "fail")
            => /\ ~FileResult(i).raised
               /\ FileResult(i).findings = << >>

\* C22: aggregation is independent of completion order: for given per-file
\* outcomes the batch returns the findings, suggestions, failed_files and
\* score of the file-list order, in whatever order the units ended.
C22_OrderIndependent ==
    batch.pc = "done" =>
        LET ids == [i \in 1..Len(batch.units) |-> i] IN
        /\ batch.findings = Prefix(ConcatFindings(batch.units), 30)
        /\ batch.suggestions = Prefix(ConcatSuggestions(batch.units), 20)
        /\ batch.failed_files = FailedFiles(batch.units, ids)
        /\ batch.score = calculate_overall_score(ConcatFindings(batch.units), Len(ids),
                                                 FailedFiles(batch.units, ids))

\* the units ended in the reverse of the file-list order, one of them
\* raised and the others returned findings
C22_Witness ==
    /\ batch.pc = "done"
    /\ Len(batch.units) = NumFiles
    /\ batch.order = [k \in 1..NumFiles |-> NumFiles + 1 - k]
    /\ batch.units[1].raised
    /\ Len(batch.findings) = NumFiles - 1

\* C25: under a wholesale completion outage, every completion call failing
\* and that of the global summary among them, the batch still returns:
\* no findings, a computed score, and the summary text built from the
\* counts instead of a response.
C25_OutageStillReturns ==
    (/\ batch.pc = "done"
     /\ batch.call # "ok"
     /\ \A i \in Files : unit[i].pc = "done" /\ unit[i].ai \in {"fail", "none"})
        => /\ batch.findings = << >>
           /\ batch.score = Max(80 - 5 * Len(batch.failed_files), 20)
           /\ \/ batch.summary = [kind |-> "totals", counts |-> << 0, 0 >>]
              \/ batch.summary = [kind |-> "severity_counts", counts |-> << 0, 0 >>]

\* every unit made its completion call, every call failed, and so did the
\* call of the summary
C25_Witness ==
    /\ batch.pc = "done"
    /\ batch.call = "fail"
    /\ \A i \in Files : unit[i].prep = "ok" /\ unit[i].ai = "fail"
    /\ batch.summary.kind = "totals"

\* C26: the aggregated per-file result is capped: at most 30 findings and at
\* most 20 suggestions, and they are the first 30 and the first 20 of the
\* concatenation of the per-file results in file-list order.
C26_Capped ==
    batch.pc = "done" =>
        LET all_findings    == ConcatFindings(batch.units)
            all_suggestions == ConcatSuggestions(batch.units)
        IN  /\ Len(batch.findings) <= 30
            /\ Len(batch.suggestions) <= 20
            /\ Len(batch.findings) = Min(30, Len(all_findings))
            /\ Len(batch.suggestions) = Min(20, Len(all_suggestions))
            /\ \A k \in 1..Len(batch.findings) : batch.findings[k] = all_findings[k]
            /\ \A k \in 1..Len(batch.suggestions) : batch.suggestions[k] = all_suggestions[k]

\* the units returned more than 30 findings and more than 20 suggestions,
\* and the units did not end in file-list order
C26_Witness ==
    /\ batch.pc = "done"
    /\ Len(ConcatFindings(batch.units)) > 30
    /\ Len(ConcatSuggestions(batch.units)) > 20
    /\ Len(batch.findings) = 30
    /\ Len(batch.suggestions) = 20
    /\ batch.order # [i \in 1..Len(batch.units) |-> i]

\* the score of a batch counted from its parts, in tenths, before the floor
RawScore ==
    LET all_findings == ConcatFindings(batch.units)
        Count(sev)   == Cardinality({k \in 1..Len(all_findings) : all_findings[k].severity = sev})
        others       == Len(all_findings) - Count("high") - Count("medium")
    IN  80 - 10 * Count("high") - 5 * Count("medium") - 2 * others
           - 5 * Len(batch.failed_files)
           - (IF Len(batch.units) > 10 THEN 3 ELSE 0)

\* C27: the score starts from 8.0, loses 1.0 per high, 0.5 per medium and 0.2
\* per other finding, 0.5 per failed file and 0.3 when the batch has more
\* than 10 files, and is floored at 2.0; it lies in [2.0, 8.0], and one more
\* finding or one more failed file never raises it.
C27_ScoreFormula ==
    batch.pc = "done" =>
        LET all_findings == ConcatFindings(batch.units)
            n            == Len(batch.units)
        IN  /\ batch.score = Max(RawScore, 20)
            /\ batch.score \in 20..80
            /\ \A sev \in {"high", "medium", "low"} :
                 calculate_overall_score(Append(all_findings, [filename |-> Filename(1), severity |-> sev]),
                                         n, batch.failed_files) <= batch.score
            /\ calculate_overall_score(all_findings, n, Append(batch.failed_files, Filename(1)))
                 <= batch.score
            /\ calculate_overall_score(all_findings, n + 1, Append(batch.failed_files, Filename(n + 1)))
                 <= batch.score

\* the floor holds the score of a batch with a failed file and many findings
C27_Witness ==
    /\ batch.pc = "done"
    /\ RawScore < 20
    /\ batch.score = 20
    /\ batch.failed_files # << >>
    /\ batch.findings # << >>

\* a batch of more than ten files that all failed loses 0.5 for each and 0.3
\* for its size
C27_LargeBatch ==
    (batch.pc = "done" /\ Len(batch.units) = 11 /\ Len(batch.failed_files) = 11)
        => batch.score = 22

\* a direct call of a CacheService method: the store it leaves is the
\* store, and the call is the last step
Direct(op, args, conn, before, r) ==
    /\ cache' = r.cache
    /\ lastOp' = Op(op, args, conn, before, r)
    /\ lastReview' = NoReview

\* a client calls get_cached_review
GetCachedReview(Keys) ==
    \E a \in Keys, conn \in Conns :
        LET r == get_cached_review(cache, a[1], a[2], a[3], a[4], a[5], conn)
        IN  /\ Direct("get_cached_review", a, conn, EmptyMap, r)
            /\ UNCHANGED <<saved, written, notCache>>

\* a client calls cache_review_result
CacheReviewResult(Keys, ResultSet) ==
    \E a \in Keys, result \in ResultSet, conn \in Conns :
        LET r == cache_review_result(cache, a[1], a[2], a[3], a[4], result, a[5], conn)
        IN  /\ Direct("cache_review_result", a, conn, EmptyMap, r)
            /\ written' = IF r.ret THEN written \cup {a} ELSE written
            /\ UNCHANGED <<saved, notCache>>

\* a client calls get_historical_issues
GetHistoricalIssues(Keys) ==
    \E a \in Keys, conn \in Conns :
        LET r == get_historical_issues(cache, a[1], a[2], a[3], conn)
        IN  /\ Direct("get_historical_issues", a, conn, EmptyMap, r)
            /\ UNCHANGED <<saved, written, notCache>>

\* a client calls save_historical_issues
SaveHistoricalIssues(Keys, FindingSet) ==
    \E a \in Keys, findings \in FindingSet, conn \in Conns :
        LET r == save_historical_issues(cache, a[1], a[2], findings, a[3], conn)
        IN  /\ Direct("save_historical_issues", a, conn,
                            get_historical_issues(cache, a[1], a[2], a[3], "ok").ret, r)
            /\ saved' = IF r.ret
                        THEN [k \in DOMAIN saved \cup {a} |->
                                 IF k = a THEN findings ELSE saved[k]]
                        ELSE saved
            /\ UNCHANGED <<written, notCache>>

\* a client calls get_duplicate_review
GetDuplicateReview(Keys) ==
    \E a \in Keys, conn \in Conns :
        LET r == get_duplicate_review(cache, a[1], a[2], a[3], a[4], conn)
        IN  /\ Direct("get_duplicate_review", a, conn, EmptyMap, r)
            /\ UNCHANGED <<saved, written, notCache>>

\* a client calls cache_duplicate_review
CacheDuplicateReview(Keys, ResultSet) ==
    \E a \in Keys, result \in ResultSet, conn \in Conns :
        LET r == cache_duplicate_review(cache, a[1], a[2], a[3], result, a[4], conn)
        IN  /\ Direct("cache_duplicate_review", a, conn, EmptyMap, r)
            /\ UNCHANGED <<saved, written, notCache>>

\* a client calls clear_review_cache, for one review type or for all
ClearReviewCache(Keys) ==
    \E a \in Keys, all \in BOOLEAN, conn \in Conns, done \in SUBSET ReviewTypes :
        /\ conn = "error" => done # ReviewTypes
        /\ conn # "error" => done = {}
        /\ LET review_type == IF all THEN "None" ELSE a[4]
               r == clear_review_cache(cache, a[1], a[2], a[3], review_type, a[5], conn, done)
           IN  /\ Direct("clear_review_cache", <<a[1], a[2], a[3], review_type, a[5]>>,
                               conn, EmptyMap, r)
        /\ UNCHANGED <<saved, written, notCache>>

\* a client calls health_check
HealthCheck ==
    \E conn \in Conns :
        LET r == health_check(cache, conn)
        IN  /\ Direct("health_check", << >>, conn, EmptyMap, r)
            /\ UNCHANGED <<saved, written, notCache>>

\* the one ledger of the direct calls
LedgerKeys == { <<<<"p1">>, <<"main">>, NoneStr>> }

\* clients that call the historical ledger directly: every list of up to
\* MaxFindings findings, every state of the connection
SpecLedger ==
    /\ Init
    /\ [][
        \/ GetHistoricalIssues(LedgerKeys)
        \/ SaveHistoricalIssues(LedgerKeys, FindingLists)
       ]_vars

\* the content-addressed entries of one project: two commits, two review types
ContentKeys ==
    { <<<<"p1">>, <<commit>>, <<"main">>, review_type, NoneStr>> :
        commit \in {"c1", "c2"}, review_type \in ReviewTypes }

\* the duplicate-submission entry of the same branch names
DupKeys == { <<<<"p1">>, <<"feat">>, <<"main">>, NoneStr>> }

DirectResults == { Result(1, "full", << >>) }

\* clients that call the content-addressed cache and the duplicate-submission
\* cache directly
SpecCache ==
    /\ Init
    /\ [][
        \/ GetCachedReview(ContentKeys)
        \/ CacheReviewResult(ContentKeys, DirectResults)
        \/ GetDuplicateReview(DupKeys)
        \/ CacheDuplicateReview(DupKeys, DirectResults)
        \/ ClearReviewCache(ContentKeys)
        \/ HealthCheck
       ]_vars

\* key tuples of callers whose strings hold a colon: a string is the sequence
\* of its colon-free pieces, so the target branch "main:T1" is <<"main", "T1">>
\* and the task id "T1:x" is <<"T1", "x">>
IsolationKeys ==
    [content |-> { <<<<"p1">>, <<"c1">>, <<"main">>, "full", NoneStr>> },
     history |-> { <<<<"p1">>, <<"main">>, NoneStr>>,
                   <<<<"p1">>, <<"main">>, <<"T1">>>>,
                   <<<<"p1">>, <<"main", "T1">>, NoneStr>> },
     dedup   |-> { <<<<"p1">>, <<"feat">>, <<"main">>, <<"T1", "x">>>>,
                   <<<<"p1">>, <<"feat">>, <<"main", "T1">>, <<"x">>>> },
     findings |-> { <<f>> : f \in { g \in FindingPool : g.type \in {"bug", "style"} } }]

\* clients that call the three keyspaces directly with those key tuples,
\* the ledger with two lists of one finding
SpecKeys ==
    /\ Init
    /\ [][
        \/ GetCachedReview(IsolationKeys.content)
        \/ CacheReviewResult(IsolationKeys.content, DirectResults)
        \/ GetHistoricalIssues(IsolationKeys.history)
        \/ SaveHistoricalIssues(IsolationKeys.history, IsolationKeys.findings)
        \/ GetDuplicateReview(IsolationKeys.dedup)
        \/ CacheDuplicateReview(IsolationKeys.dedup, DirectResults)
       ]_vars

\* what a read of every key tuple of the three keyspaces returns, but for
\* the tuple skip
ReadsOfOthers(store, skip) ==
    [a \in (IsolationKeys.content \cup IsolationKeys.history \cup IsolationKeys.dedup) \ {skip} |->
        IF a \in IsolationKeys.content
        THEN get_cached_review(store, a[1], a[2], a[3], a[4], a[5], "ok").ret
        ELSE IF a \in IsolationKeys.history
        THEN get_historical_issues(store, a[1], a[2], a[3], "ok").ret
        ELSE get_duplicate_review(store, a[1], a[2], a[3], a[4], "ok").ret]

\* C35: isolation of the keyspaces: a write for one key tuple (of the
\* content-addressed cache, of the historical ledger, of the
\* duplicate-submission map) never changes what a read for a different key
\* tuple, of the same keyspace or of another, returns.
C35_KeyspaceIsolation ==
    [][lastOp'.op \in {"cache_review_result", "save_historical_issues",
                       "cache_duplicate_review"}
          => ReadsOfOthers(cache', lastOp'.args) = ReadsOfOthers(cache, lastOp'.args)]_vars

\* no string of the key tuple holds a colon
ColonFree(a) == a \in IsolationKeys.content \/ \A i \in DOMAIN a : Len(a[i]) <= 1

\* the same among the key tuples whose strings hold no colon
C35_ColonFree ==
    [][(/\ lastOp'.op \in {"cache_review_result", "save_historical_issues",
                           "cache_duplicate_review"}
        /\ ColonFree(lastOp'.args))
          => \A a \in DOMAIN ReadsOfOthers(cache, lastOp'.args) :
                ColonFree(a) => ReadsOfOthers(cache', lastOp'.args)[a]
                                    = ReadsOfOthers(cache, lastOp'.args)[a]]_vars

(***************************************************************************)
(* Two review runs of one (project, target_branch, task_id) save their     *)
(* findings at the same time (SpecRace).  save_historical_issues awaits    *)
(* twice: the client, then the setex of the map it built in between.       *)
(***************************************************************************)
\* run w has its findings and its client and calls setex
SaveBegin(w) ==
    /\ saver[w].pc = "idle"
    /\ \E findings \in FindingLists \ {<< >>} :
        saver' = [saver EXCEPT ![w] = [pc |-> "setex", findings |-> findings, ret |-> FALSE]]
    /\ UNCHANGED <<cache, lastOp, saved, written, lastReview>>
    /\ UNCHANGED <<tasks, taskIndex, lastCall, run, unit, semaphore, batch, repo, uuid, reply, selection, caller, counter>>

\* the setex of run w reaches the store, or fails
SaveLand(w) ==
    /\ saver[w].pc = "setex"
    /\ \E a \in LedgerKeys, conn \in Conns :
        LET r == save_historical_issues(cache, a[1], a[2], saver[w].findings, a[3], conn)
        IN  /\ Direct("save_historical_issues", a, conn,
                            get_historical_issues(cache, a[1], a[2], a[3], "ok").ret, r)
            /\ saved' = IF r.ret
                        THEN [k \in DOMAIN saved \cup {a} |->
                                 IF k = a THEN saver[w].findings ELSE saved[k]]
                        ELSE saved
            /\ saver' = [saver EXCEPT ![w] = [@ EXCEPT !.pc = "done", !.ret = r.ret]]
    /\ UNCHANGED <<written, tasks, taskIndex, lastCall, run, unit, semaphore, batch, repo, uuid, reply, selection, caller, counter>>

SpecRace == Init /\ [][\E w \in 1..2 : SaveBegin(w) \/ SaveLand(w)]_vars

\* the filename-grouped summaries of a list of findings, said directly
Grouped(findings) ==
    LET NameOf(f) == DictGet(f.filename, "unknown")
        Of(name) == SelectSeq(findings, LAMBDA f : NameOf(f) = name)
    IN  [name \in { NameOf(findings[i]) : i \in DOMAIN findings } |->
            [i \in 1..Len(Of(name)) |-> IssueSummary(Of(name)[i])]]

C9_KeyedOnCommit ==
    (lastOp.op = "get_cached_review" /\ lastOp.ret # NoResult) => lastOp.args \in written

\* stored for c1 only: the get for c2 is absent while get_duplicate_review
\* for the same branch names returns a stored result
C9_Witness ==
    /\ lastOp.op = "get_cached_review" /\ lastOp.conn = "ok"
    /\ lastOp.args = <<<<"p1">>, <<"c2">>, <<"main">>, "full", NoneStr>>
    /\ lastOp.ret = NoResult
    /\ written = { <<<<"p1">>, <<"c1">>, <<"main">>, "full", NoneStr>> }
    /\ get_cached_review(cache, <<"p1">>, <<"c1">>, <<"main">>, "full", NoneStr, "ok").ret
          # NoResult
    /\ get_duplicate_review(cache, <<"p1">>, <<"feat">>, <<"main">>, NoneStr, "ok").ret
          # NoResult

\* a client calls review_branch_comparison.  repeats: the review_id the
\* step before returned, if that step was a completed call with the same
\* arguments, the cache in use and the store available at each cache call
Review(ArgSet, UseCache, ConnSet) ==
    \E a \in ArgSet, use_cache \in UseCache, conns \in ConnSet, outcome \in Outcomes(repo) :
        LET r == review_branch_comparison(cache, a, use_cache, conns, repo, outcome, uuid + 1)
        IN  /\ r.fresh => uuid < MaxReviews
            /\ uuid' = IF r.fresh THEN uuid + 1 ELSE uuid
            /\ cache' = r.cache
            /\ saved' = IF r.kept
                        THEN [k \in DOMAIN saved \cup {<<a[1], a[3], a[5]>>} |->
                                 IF k = <<a[1], a[3], a[5]>> THEN r.ret.findings ELSE saved[k]]
                        ELSE saved
            /\ lastOp' = NoOp
            /\ lastReview' =
                   [args |-> a, use_cache |-> use_cache, store |-> IF \A i \in 1..4 : conns[i] = conns[1] THEN conns[1] ELSE "partial",
                    kind |-> outcome.kind, raised |-> r.raised, fresh |-> r.fresh,
                    ret |-> r.ret, historical_issues |-> r.historical_issues,
                    repeats |-> IF /\ lastReview.args = a /\ lastReview.use_cache
                                   /\ lastReview.store = "ok" /\ ~lastReview.raised
                                THEN lastReview.ret.review_id ELSE 0,
                    dup |-> r.dup,
                    received |->
                        IF r.fresh /\ outcome.kind # "gitlab_error"
                        THEN [name \in { <<"F", "G">>[k] : k \in 1..repo } |->
                                 file_historical_issues(repo, name, r.historical_issues)]
                        ELSE EmptyMap]
            /\ UNCHANGED <<written, repo, notReview>>

\* a push to the source branch; the diff between the two branches after it
\* has none, one or two files
Push ==
    /\ \E diff \in {0, 1, 2} \ {repo} : repo' = diff
    /\ lastOp' = NoOp
    /\ lastReview' = NoReview
    /\ UNCHANGED <<cache, saved, written, uuid, notReview>>

\* one branch pair and task, reviewed as "full" or as "quick"
ReviewArgs ==
    { <<<<"p1">>, <<"feat">>, <<"main">>, review_type, NoneStr>> : review_type \in ReviewTypes }

\* the store connection is in one state for the whole of a review
\* reviews of one branch pair, as "full" or as "quick", with the cache in
\* use or not, and pushes to the source branch
SpecReview ==
    /\ Init
    /\ [][
        \/ Review(ReviewArgs, BOOLEAN, { [i \in 1..4 |-> conn] : conn \in Conns })
        \/ Push
       ]_vars

\* C39: with use_cache=False review_branch_comparison reads and writes no
\* cache: the run leaves the duplicate-submission map and the historical
\* ledger as they were, no duplicate is looked up, the review and each of
\* its files receive an empty map of historical findings, and the returned
\* result does not have from_cache set.
C39_NoCacheWithoutUseCache ==
    [][(lastReview'.args # << >> /\ ~lastReview'.use_cache)
          => /\ cache' = cache
             /\ saved' = saved
             /\ lastReview'.dup = NoResult
             /\ lastReview'.historical_issues = EmptyMap
             /\ \A name \in DOMAIN lastReview'.received :
                   lastReview'.received[name].historical_issues = << >>
             /\ ~lastReview'.ret.from_cache]_vars

\* a review with use_cache=False that returned findings while the store was
\* available and held a duplicate of its review type and a ledger for its
\* arguments
C39_Witness ==
    /\ lastReview.args # << >>
    /\ ~lastReview.use_cache
    /\ lastReview.store = "ok"
    /\ lastReview.ret.findings # << >>
    /\ ~lastReview.raised
    /\ LET a == lastReview.args
           dup == get_duplicate_review(cache, a[1], a[2], a[3], a[5], "ok").ret
       IN  /\ dup # NoResult
           /\ dup.review_type = a[4]
           /\ dup.review_id # lastReview.ret.review_id
           /\ get_historical_issues(cache, a[1], a[3], a[5], "ok").ret # EmptyMap

\* the ledger and the content-addressed entry of the direct calls made
\* next to the reviews
ReviewContentKeys == { <<<<"p1">>, <<"c1">>, <<"main">>, "full", NoneStr>> }

\* the store connection at each of the four cache calls of one review: any
\* of the calls may find it gone, or any may find it failing
\* "full" reviews of one branch pair and direct calls of every CacheService
\* operation, the store connection in any state at each cache call
SpecDegraded ==
    /\ Init
    /\ [][
        \/ Review({a \in ReviewArgs : a[4] = "full"}, {TRUE},
                  { [i \in 1..4 |-> IF i \in failing THEN conn ELSE "ok"] :
                      failing \in SUBSET (1..4), conn \in Conns \ {"ok"} })
        \/ Push
        \/ GetCachedReview(ReviewContentKeys)
        \/ CacheReviewResult(ReviewContentKeys, DirectResults)
        \/ GetHistoricalIssues(LedgerKeys)
        \/ SaveHistoricalIssues(LedgerKeys, ReviewFindings \ {<< >>})
        \/ GetDuplicateReview(DupKeys)
        \/ CacheDuplicateReview(DupKeys, DirectResults)
        \/ ClearReviewCache(ReviewContentKeys)
        \/ HealthCheck
       ]_vars

\* C3: with the cache in use and the store available, a review_branch_comparison
\* call that directly follows a completed call with the same (project,
\* source_branch, target_branch, task_id, review_type) returns a result with
\* from_cache = true and the review_id the first call returned, whatever the diff.
C3_SecondCallFromCache ==
    (lastReview.repeats # 0 /\ lastReview.use_cache /\ lastReview.store = "ok")
        => /\ ~lastReview.raised
           /\ lastReview.ret.from_cache
           /\ lastReview.ret.review_id = lastReview.repeats

\* C12: review_branch_comparison never returns a duplicate-submission entry
\* whose recorded review_type differs from the requested one; when the entry
\* it finds was recorded for another review_type it runs a fresh review.
C12_NoCrossModeContamination ==
    /\ (lastReview.args # << >> /\ ~lastReview.raised /\ ~lastReview.fresh)
          => lastReview.ret.review_type = lastReview.args[4]
    /\ (lastReview.dup # NoResult /\ lastReview.dup.review_type # lastReview.args[4]
        /\ lastReview.kind = "ok")
          => /\ lastReview.fresh
             /\ ~lastReview.ret.from_cache
             /\ lastReview.ret.review_id # lastReview.dup.review_id

\* a "quick" review found the entry of a "full" review and ran afresh
C12_Witness ==
    /\ lastReview.dup # NoResult /\ lastReview.dup.review_type = "full"
    /\ lastReview.args # << >> /\ lastReview.args[4] = "quick"
    /\ lastReview.fresh /\ lastReview.ret.review_type = "quick"

\* C28: incremental re-review: in a review_branch_comparison run, made with
\* the cache in use and the store answering, in which the ledger holds
\* findings for a changed file, the analysis of that file receives exactly
\* the findings the ledger holds under its filename and runs in the
\* verify-fix mode; a changed file without ledger findings gets the general
\* review.
C28_IncrementalReReview ==
    [][(/\ lastReview'.args # << >>
        /\ lastReview'.use_cache /\ lastReview'.store = "ok"
        /\ lastReview'.fresh /\ lastReview'.kind # "gitlab_error")
          => LET a      == lastReview'.args
                 ledger == get_historical_issues(cache, a[1], a[3], a[5], "ok").ret
             IN  \A name \in DOMAIN lastReview'.received :
                    IF name \in DOMAIN ledger
                    THEN lastReview'.received[name] =
                             [historical_issues |-> ledger[name], mode |-> "verify_fix"]
                    ELSE lastReview'.received[name] =
                             [historical_issues |-> << >>, mode |-> "general"]
      ]_vars

\* the same for the diffs of more than one file, which take the per-file path
C28_PerFilePath ==
    [][(/\ lastReview'.args # << >>
        /\ lastReview'.use_cache /\ lastReview'.store = "ok"
        /\ lastReview'.fresh /\ lastReview'.kind # "gitlab_error"
        /\ repo > 1)
          => LET a      == lastReview'.args
                 ledger == get_historical_issues(cache, a[1], a[3], a[5], "ok").ret
             IN  \A name \in DOMAIN lastReview'.received :
                    IF name \in DOMAIN ledger
                    THEN lastReview'.received[name] =
                             [historical_issues |-> ledger[name], mode |-> "verify_fix"]
                    ELSE lastReview'.received[name] =
                             [historical_issues |-> << >>, mode |-> "general"]
      ]_vars

\* a per-file run handed a file the findings of the ledger
C28_PerFileSeen ==
    \E name \in DOMAIN lastReview.received : lastReview.received[name].mode = "verify_fix"

\* C19: the duplicate check comes first and short-circuits: a call that finds
\* a duplicate entry of the requested review_type returns that entry, whatever
\* GitLab and the completion service would have answered, draws no review id
\* and leaves every cache entry and the ledger as they were.
C19_DuplicateHitShortCircuits ==
    [][(/\ lastReview'.args # << >>
        /\ lastReview'.dup # NoResult
        /\ lastReview'.dup.review_type = lastReview'.args[4])
          => /\ ~lastReview'.raised
             /\ lastReview'.ret = lastReview'.dup
             /\ ~lastReview'.fresh
             /\ uuid' = uuid
             /\ cache' = cache
             /\ saved' = saved]_vars

\* a duplicate hit was returned at a moment when GitLab would have failed
C19_Witness ==
    /\ lastReview.args # << >>
    /\ lastReview.dup # NoResult /\ lastReview.dup.review_type = lastReview.args[4]
    /\ lastReview.kind = "gitlab_error"
    /\ ~lastReview.raised /\ lastReview.ret.from_cache
    /\ DOMAIN cache # {}

\* C20: after a review_branch_comparison run that was not served from cache
\* and completed with the cache in use and the store available, the
\* duplicate entry of its arguments holds the run's result and the ledger
\* of (project, target_branch, task_id) holds exactly the run's findings
\* grouped by filename, whatever findings the run produced.
C20_RunPersisted ==
    (/\ lastReview.args # << >> /\ lastReview.fresh /\ ~lastReview.raised
     /\ lastReview.use_cache /\ lastReview.store = "ok")
        => LET a == lastReview.args IN
           /\ get_duplicate_review(cache, a[1], a[2], a[3], a[5], "ok").ret
                 = [lastReview.ret EXCEPT !.from_cache = TRUE]
           /\ get_historical_issues(cache, a[1], a[3], a[5], "ok").ret
                 = Grouped(lastReview.ret.findings)

\* the same for the runs that produced findings
C20_WithFindings == lastReview.ret.findings = << >> \/ C20_RunPersisted

\* the same pair of calls over a diff that has files
C3_NonEmptyDiff == repo = 0 \/ C3_SecondCallFromCache

\* C7: the cache never blocks a request: no CacheService operation raises;
\* when the store is not connected or a store call fails, the gets return
\* absent, get_historical_issues the empty map, the writes, clear and
\* health_check false; and a review_branch_comparison whose GitLab and
\* analysis calls succeed returns a result, a freshly made one when the
\* store was gone or failing at each of its cache calls.
C7_CacheNeverBlocks ==
    /\ ~lastOp.raised
    /\ (lastOp.conn # "ok" /\ lastOp.op \in {"get_cached_review", "get_duplicate_review"})
          => lastOp.ret = NoResult
    /\ (lastOp.conn # "ok" /\ lastOp.op = "get_historical_issues")
          => lastOp.ret = EmptyMap
    /\ (lastOp.conn # "ok"
        /\ lastOp.op \in {"cache_review_result", "cache_duplicate_review",
                          "save_historical_issues", "clear_review_cache", "health_check"})
          => lastOp.ret = FALSE
    /\ lastReview.kind = "ok"
          => /\ ~lastReview.raised
             /\ lastReview.ret # NoResult
             /\ lastReview.store \in {"down", "error"}
                   => /\ lastReview.fresh
                      /\ ~lastReview.ret.from_cache
                      /\ lastReview.historical_issues = EmptyMap

\* a review whose four cache calls all failed returned its own findings,
\* over a store that holds an earlier result for the same arguments
C7_Witness ==
    /\ lastReview.kind = "ok" /\ lastReview.store = "error"
    /\ ~lastReview.raised /\ lastReview.fresh
    /\ lastReview.ret.findings # << >>
    /\ get_duplicate_review(cache, lastReview.args[1], lastReview.args[2],
                            lastReview.args[3], lastReview.args[5], "ok").ret.review_type
          = "full"

(***************************************************************************)
(* The repair of completion responses.                                     *)
(***************************************************************************)
\* responses longer than MaxTokens: a well-formed answer with one finding
\* and one suggestion, bare, fenced, inside prose, cut short, with a
\* trailing comma, with a colon in a string
Samples ==
    LET ValidDocument == Document(<<"{", "q", ":", "q", "}">>, <<"q">>) IN
    { ValidDocument,
      <<"fence_json", "nl">> \o ValidDocument \o <<"nl", "fence">>,
      <<"fence", "nl">> \o ValidDocument \o <<"nl", "fence">>,
      <<"w", "w">> \o ValidDocument \o <<"w">>,
      SubSeq(ValidDocument, 1, 13),
      Document(<< >>, <<"q", ",">>),
      Document(<<"w">>, << >>),
      Document(<< >>, <<"u">>) }

Responses ==
    LET Tokens == {"{", "}", "[", "]", ":", ",", "w", "nl"} \cup Strings \cup Fences IN
    UNION { [1..n -> Tokens] : n \in 0..MaxTokens } \cup Samples

\* chat_completion returns a response text
ChatCompletion ==
    /\ reply.pc = "none"
    /\ \E response \in Responses :
          reply' = [NoReply EXCEPT !.pc = "received", !.response = response, !.filename = "F"]
    /\ UNCHANGED <<selection, notPure>>

\* the response is extracted, parsed, fixed and validated
ParseResponse ==
    /\ reply.pc = "received"
    /\ reply' = [reply EXCEPT !.pc = "repaired", !.result = parse_response(reply.response, reply.filename)]
    /\ UNCHANGED <<selection, notPure>>

\* the repair applied to every response of up to MaxTokens tokens and to the samples
SpecRepair == Init /\ [][ChatCompletion \/ ParseResponse]_vars

\* C8: for every response text that is not JSON the repair yields findings = []
\* and a non-empty diagnostic suggestion.
C8_NonJsonGivesDiagnostic ==
    (reply.pc = "repaired" /\ ~json_loads(reply.response).ok)
        => /\ reply.result.findings = << >>
           /\ reply.result.suggestions # << >>

\* the text of a response inside its code fence, if it is wrapped in one
Unfenced(response) ==
    LET r == strip(response)
    IN  IF Len(r) > 1 /\ r[1] \in Fences /\ r[Len(r)] = "fence"
        THEN strip(SubSeq(r, 2, Len(r) - 1)) ELSE r

\* the response is a JSON object with a findings and a suggestions array,
\* bare or wrapped in a code fence
ValidObject(response) ==
    LET p == json_loads(Unfenced(response))
        Has(key) == \E k \in DOMAIN p.value.keys :
                        p.value.keys[k] = key /\ p.value.items[k].kind = "list"
    IN  p.ok /\ p.value.kind = "dict" /\ Has("F") /\ Has("S")

\* C40: the repair preserves valid output: for every response that is
\* already a JSON object with findings and suggestions arrays, bare or in a
\* code fence, the repair chain yields the findings and suggestions that
\* parsing that object directly yields, whatever its strings hold.
C40_RepairPreservesValid ==
    (reply.pc = "repaired" /\ ValidObject(reply.response))
        => reply.result = with_filename(
                              validate_and_fix_result(json_loads(Unfenced(reply.response)).value),
                              reply.filename)

\* the same for the responses none of whose strings holds a word and a colon
C40_NoColonInStrings ==
    (\A i \in DOMAIN reply.response : reply.response[i] # "u")
        => C40_RepairPreservesValid

(***************************************************************************)
(* _ai_single_file_analysis from the parsed result on (SpecValidate): the  *)
(* validation and the filename loop, fed with parsed results whose         *)
(* findings hold dicts with and without their keys, with every kind of     *)
(* severity, and values that are no dicts, and whose suggestions hold      *)
(* plain, padded, blank and empty strings and values that are no strings.  *)
(***************************************************************************)
ValidateParsed ==
    LET Str(text) == Value("str", text, << >>, << >>)
        Severities == {Str("high"), Str("medium"), Str("low"), Str("critical"),
                       Value("list", "", << >>, << >>)}
        FindingValues ==
            {Str("x"), Value("list", "", << >>, << >>)}
            \cup {Value("dict", "", <<"line_number">>, <<Str("x")>>)}
            \cup {Value("dict", "", <<"severity">>, <<sev>>) : sev \in Severities}
            \cup {Value("dict", "", <<"type", "severity", "description", "filename">>,
                        <<Str("bug"), sev, Str("d"), Str("G")>>) : sev \in Severities}
        SuggestionValues ==
            {Str("x"), Str(" x "), Str(" "), Str(""),
             Value("list", "", << >>, << >>), Value("dict", "", << >>, << >>)}
        Lists(S) == {Value("list", "", << >>, items) :
                        items \in UNION {[1..n -> S] : n \in 0..MaxElements}}
        Dict(findings, suggestions) == Value("dict", "", <<"F", "S">>, <<findings, suggestions>>)
        SomeFindings == Value("list", "", << >>, <<Str("x"), Value("dict", "", <<"severity">>, <<Str("critical")>>)>>)
        SomeSuggestions == Value("list", "", << >>, <<Str(" x "), Str(" "), Str("x")>>)
        ParsedResults ==
            {Str("x"), Value("list", "", << >>, << >>), Value("dict", "", << >>, << >>),
             Value("dict", "", <<"F">>, <<Str("x")>>), Value("dict", "", <<"S">>, <<Str("x")>>)}
            \cup {Dict(findings, SomeSuggestions) : findings \in Lists(FindingValues)}
            \cup {Dict(SomeFindings, suggestions) : suggestions \in Lists(SuggestionValues)}
    IN
    /\ reply.pc = "none"
    /\ \E parsed \in ParsedResults, filename \in {"F", "G"} :
          reply' = [NoReply EXCEPT
                       !.pc = "validated", !.parsed = parsed, !.filename = filename,
                       !.result = with_filename(validate_and_fix_result(parsed), filename)]
    /\ UNCHANGED <<selection, notPure>>

SpecValidate == Init /\ [][ValidateParsed]_vars

\* what a parsed dict holds under a key, of a repeated key the last
Lookup(d, key) ==
    LET S == { i \in DOMAIN d.keys : d.keys[i] = key }
    IN  IF S = {} THEN Failed.value ELSE d.items[Last(S)]

\* C29: schema validation: the result made of a response that parsed holds
\* as findings the objects of the parsed findings and nothing else, each
\* with a type and a description (its own, or the default when it had
\* none), a severity that is high, medium or low (its own if it was one of
\* them, else low) and the analysed file's name as filename; every
\* suggestion is a string that is not empty.
C29_SchemaValidated ==
    reply.pc = "validated" =>
        LET Str(text) == Value("str", text, << >>, << >>)
            Has(d, key) == \E k \in DOMAIN d.keys : d.keys[k] = key
            given == IF reply.parsed.kind = "dict" /\ Lookup(reply.parsed, "F").kind = "list"
                     THEN Lookup(reply.parsed, "F").items ELSE << >>
            findings == reply.result.findings
        IN  /\ [i \in DOMAIN findings |-> findings[i].fields]
                   = SelectSeq(given, LAMBDA x : x.kind = "dict")
            /\ \A i \in DOMAIN findings :
                 LET f == findings[i] IN
                 /\ f.type = IF Has(f.fields, "type")
                             THEN Lookup(f.fields, "type") ELSE Str("unknown")
                 /\ f.description = IF Has(f.fields, "description")
                                    THEN Lookup(f.fields, "description") ELSE Str("default")
                 /\ f.severity \in {Str("high"), Str("medium"), Str("low")}
                 /\ Lookup(f.fields, "severity") \in {Str("high"), Str("medium"), Str("low")}
                       => f.severity = Lookup(f.fields, "severity")
                 /\ Lookup(f.fields, "severity") \notin {Str("high"), Str("medium"), Str("low")}
                       => f.severity = Str("low")
                 /\ f.filename = Str(reply.filename)
            /\ \A i \in DOMAIN reply.result.suggestions :
                 reply.result.suggestions[i] \in {"x"}

\* a value that is no object was dropped, an object with an unknown severity
\* and another file's name was kept as low under the analysed file's name,
\* and a blank suggestion was dropped
C29_Witness ==
    /\ reply.pc = "validated"
    /\ reply.filename = "F"
    /\ Len(Lookup(reply.parsed, "F").items) = 2
    /\ Lookup(reply.parsed, "F").items[1].kind = "str"
    /\ Lookup(Lookup(reply.parsed, "F").items[2], "severity").text = "critical"
    /\ Lookup(Lookup(reply.parsed, "F").items[2], "filename").text = "G"
    /\ Len(reply.result.findings) = 1
    /\ reply.result.findings[1].severity.text = "low"
    /\ Len(reply.result.suggestions) = 2

(***************************************************************************)
(* The file filter (SpecFilter): _filter_relevant_files applied to every   *)
(* list of up to MaxChanges changes, under the patterns of a vendor        *)
(* directory at the top and at any depth and of the lock files, or under   *)
(* no pattern, with and without smart filtering.                           *)
(***************************************************************************)
FilterRelevantFiles ==
    LET \* change_size: the lines the diff of the change adds and removes
        Change(new_path, old_path, change_size) ==
            [new_path |-> new_path, old_path |-> old_path, change_size |-> change_size]
        Changes ==
            { Change(<<"src", "/", "a", ".", "py">>, << >>, 10),
              Change(<<"node_modules", "/", "a", ".", "py">>, << >>, 10),
              Change(<<"/", "node_modules", "/", "a", ".", "py">>, << >>, 10),
              Change(<<"src", "backslash", "node_modules", "backslash", "a", ".", "py">>, << >>, 10),
              Change(<<"yarn", ".", "lock">>, << >>, 200),
              Change(<<"a", ".", "md">>, << >>, 10),
              Change(<<"b", ".", "md">>, << >>, 200),
              Change(<< >>, <<"node_modules", "/", "a", ".", "py">>, 10),
              Change(<<"README">>, << >>, 10) }
        Patterns ==
            { << >>,
              << <<"node_modules", "/", "*">>, <<"*", "/", "node_modules", "/", "*">>,
                 <<"*", ".", "lock">> >> }
    IN
    /\ selection.pc = "none"
    /\ \E n \in 0..MaxChanges :
        \E changes \in [1..n -> Changes], ignored_patterns \in Patterns,
           smart_filtering \in BOOLEAN, max_files \in 0..MaxFilesPerReview :
            selection' = [NoSelection EXCEPT
                !.pc = "filtered",
                !.changes = changes,
                !.ignored_patterns = ignored_patterns,
                !.smart_filtering = smart_filtering,
                !.max_files = max_files,
                !.filtered = filter_relevant_files(changes, ignored_patterns,
                                                   smart_filtering, max_files)]
    /\ UNCHANGED <<reply, notPure>>

SpecFilter == Init /\ [][FilterRelevantFiles]_vars

\* C30: the ignore patterns are always applied: with and without smart
\* filtering no change whose normalized path matches a configured pattern
\* is in the output; without smart filtering the output is exactly the
\* first max_files_per_review changes that are not ignored, in their
\* original order.
C30_IgnoreAlwaysApplied ==
    selection.pc = "filtered" =>
        LET Ignored(c) == is_ignored_by_path(c, selection.ignored_patterns)
            kept == SelectSeq(selection.changes, LAMBDA c : ~Ignored(c))
        IN  /\ \A k \in DOMAIN selection.filtered : ~Ignored(selection.filtered[k])
            /\ ~selection.smart_filtering
                  => /\ Len(selection.filtered) = Min(selection.max_files, Len(kept))
                     /\ \A k \in DOMAIN selection.filtered : selection.filtered[k] = kept[k]

\* without smart filtering, a change ignored only once its path is
\* normalized stood before changes that are not ignored, more of them than
\* the maximum: the output is the first of these
C30_Witness ==
    /\ selection.pc = "filtered"
    /\ ~selection.smart_filtering
    /\ selection.max_files = 1
    /\ Len(selection.changes) = 3
    /\ selection.changes[1].new_path = <<"/", "node_modules", "/", "a", ".", "py">>
    /\ selection.changes[2].new_path = <<"a", ".", "md">>
    /\ selection.changes[3].new_path = <<"src", "/", "a", ".", "py">>
    /\ selection.ignored_patterns # << >>
    /\ selection.filtered = <<selection.changes[2]>>

\* the priority of a change as the selector is described: the base priority
\* of its extension, plus 2 for more than 100 changed lines, plus 1 for
\* more than 50
BasePriority(c) ==
    LET dots == { k \in DOMAIN c.new_path : c.new_path[k] = "." }
        ext  == IF dots = {} THEN "" ELSE c.new_path[Len(c.new_path)]
    IN  IF ext \in DOMAIN FILE_PRIORITY THEN FILE_PRIORITY[ext] ELSE 5

SizedPriority(c) ==
    BasePriority(c) + (IF c.change_size > 100 THEN 2 ELSE IF c.change_size > 50 THEN 1 ELSE 0)

\* C31: with smart filtering the selector orders the files by non-increasing
\* priority, the priority being the base priority of the extension plus 2
\* for more than 100 changed lines or plus 1 for more than 50, and files of
\* equal priority keep their original relative order.
C31_OrderedBySizedPriority ==
    (selection.pc = "filtered" /\ selection.smart_filtering) =>
        LET out == selection.filtered
            candidates == SelectSeq(selection.changes,
                              LAMBDA c : /\ ~is_ignored_by_path(c, selection.ignored_patterns)
                                         /\ BasePriority(c) > 0)
        IN  /\ \A i, j \in DOMAIN out : i < j => SizedPriority(out[i]) >= SizedPriority(out[j])
            /\ \A p \in { SizedPriority(out[i]) : i \in DOMAIN out } :
                 LET mine  == SelectSeq(out, LAMBDA c : SizedPriority(c) = p)
                     given == SelectSeq(candidates, LAMBDA c : SizedPriority(c) = p)
                 IN  /\ Len(mine) <= Len(given)
                     /\ mine = SubSeq(given, 1, Len(mine))

\* the same with the priority of the extension alone
C31_OrderedByBasePriority ==
    (selection.pc = "filtered" /\ selection.smart_filtering) =>
        LET out == selection.filtered
            candidates == SelectSeq(selection.changes,
                              LAMBDA c : /\ ~is_ignored_by_path(c, selection.ignored_patterns)
                                         /\ BasePriority(c) > 0)
        IN  /\ \A i, j \in DOMAIN out : i < j => BasePriority(out[i]) >= BasePriority(out[j])
            /\ \A p \in { BasePriority(out[i]) : i \in DOMAIN out } :
                 LET mine  == SelectSeq(out, LAMBDA c : BasePriority(c) = p)
                     given == SelectSeq(candidates, LAMBDA c : BasePriority(c) = p)
                 IN  /\ Len(mine) <= Len(given)
                     /\ mine = SubSeq(given, 1, Len(mine))

FilePatch(filename, change_size, ktokens) ==
    [filename |-> filename, change_size |-> change_size, ktokens |-> ktokens]

\* the files of the model: importance 12, 11, 10, 3 and 5
FilePool ==
    { FilePatch(<<"a", "py">>, 120, 0), FilePatch(<<"b", "py">>, 60, 1),
      FilePatch(<<"c", "py">>, 10, 5), FilePatch(<<"d", "md">>, 10, 1),
      FilePatch(<<"Makefile">>, 10, 0) }

\* lists of up to MaxCostFiles files, no file twice
DiffLists ==
    { l \in UNION { [1..n -> FilePool] : n \in 0..MaxCostFiles } :
        \A i, j \in DOMAIN l : l[i] = l[j] => i = j }

\* a diff arrives at analyze_merge_request
SubmitDiff ==
    /\ selection.pc = "none"
    /\ \E diff_files \in DiffLists,
          model \in {"gpt-4", "gpt-4-turbo", "gpt-3.5-turbo", "other"},
          ceiling \in {10000, 50000}, enabled \in BOOLEAN :
          selection' = [pc |-> "submitted", diff_files |-> diff_files, model |-> model,
                        ceiling |-> ceiling, enabled |-> enabled, selected |-> << >>]
    /\ UNCHANGED <<reply, notPure>>

\* _optimize_for_cost returns
OptimizeForCost ==
    /\ selection.pc = "submitted"
    /\ selection' = [selection EXCEPT !.pc = "selected",
                       !.selected = optimize_for_cost(selection.diff_files, selection.model,
                                                      selection.ceiling, selection.enabled)]
    /\ UNCHANGED <<reply, notPure>>

\* the cost selector applied to every list of up to MaxCostFiles files
SpecCost == Init /\ [][SubmitDiff \/ OptimizeForCost]_vars

RECURSIVE CumulativeCost(_, _)
\* the sum of the per-file cost estimates
CumulativeCost(files, model) ==
    IF files = << >> THEN 0
    ELSE estimate_cost(model, Head(files).ktokens) + CumulativeCost(Tail(files), model)

\* C10: with cost optimisation on, the files selected are exactly those of
\* the longest prefix of the priority-ordered file list whose cumulative cost
\* estimate stays within the ceiling.
C10_LongestAffordablePrefix ==
    (selection.pc = "selected" /\ selection.enabled)
        => LET ordered == sorted_files(selection.diff_files)
               fits == { n \in 0..Len(ordered) :
                           CumulativeCost(SubSeq(ordered, 1, n), selection.model)
                               <= selection.ceiling }
           IN  { selection.selected[i] : i \in DOMAIN selection.selected }
                  = { ordered[i] : i \in 1..Last(fits) }

\* the same when the estimate of the whole list is above the ceiling
C10_AboveCeiling ==
    estimate_cost(selection.model, TotalTokens(selection.diff_files)) > selection.ceiling
        => C10_LongestAffordablePrefix

\* C33: the budget of the cost selector: with cost optimisation on, the sum
\* of the per-file cost estimates of the files _optimize_for_cost returns is
\* within the ceiling, and each returned file is a file of the input,
\* returned once.
C33_WithinBudget ==
    (selection.pc = "selected" /\ selection.enabled)
        => /\ CumulativeCost(selection.selected, selection.model) <= selection.ceiling
           /\ \A i \in DOMAIN selection.selected :
                \E j \in DOMAIN selection.diff_files :
                    selection.diff_files[j] = selection.selected[i]
           /\ \A i, j \in DOMAIN selection.selected :
                selection.selected[i] = selection.selected[j] => i = j

\* the same when the estimate of the whole list is above the ceiling
C33_AboveCeiling ==
    estimate_cost(selection.model, TotalTokens(selection.diff_files)) > selection.ceiling
        => C33_WithinBudget

(***************************************************************************)
(* core/task_manager.py with two callers on the shared store.  Every await *)
(* of a store call is a point where the other caller may run: a call is    *)
(* its first store call (begin_call) and then one step per further store   *)
(* call (next_store_call).  The arguments are fixed: progress 50, result   *)
(* r1, error e1, on the one task id t1.  Keys do not expire and no store    *)
(* call fails.                                                             *)
(***************************************************************************)
\* the task that update_progress, complete_task or fail_task sets, from the
\* task its get_task returned
Mutated(op, id, task) ==
    LET local == [tasks EXCEPT ![id] = task] IN
    CASE op = "update_progress" -> update_progress(local, id, 50, "msg")[id]
      [] op = "complete_task" -> complete_task(local, id, "r1")[id]
      [] op = "fail_task" -> fail_task(local, id, "e1")[id]

\* the first store call of a TaskManager method: the set of create_task, the
\* get of get_task, the delete of delete_task, the smembers of get_all_tasks
\* and cleanup_old_tasks.  with: the call began while the other caller was
\* between the get and the set of its call on the same id
begin_call(c) ==
    \E op \in {"create_task", "update_progress", "complete_task", "fail_task",
               "delete_task", "get_all_tasks", "cleanup_old_tasks"},
       id \in {"t1"} :
        LET d == 3 - c
            mutation == op \in {"update_progress", "complete_task", "fail_task"}
            sweep == op \in {"get_all_tasks", "cleanup_old_tasks"}
            found == tasks[id] # NoTask
            together == mutation /\ found /\ caller[d].pc = "set" /\ caller[d].id = id
        IN  /\ caller[c].pc = "idle"
            /\ tasks' = CASE op = "create_task" -> [tasks EXCEPT ![id] = NewTask]
                          [] op = "delete_task" -> [tasks EXCEPT ![id] = NoTask]
                          [] OTHER -> tasks
            /\ caller' = [caller EXCEPT
                            ![c] = [pc |-> CASE op = "create_task" -> "sadd"
                                             [] op = "delete_task" -> "srem"
                                             [] mutation -> IF found THEN "set" ELSE "idle"
                                             [] OTHER -> "loop",
                                    op |-> op,
                                    id |-> IF sweep THEN "none" ELSE id,
                                    task |-> IF mutation THEN get_task(tasks, id) ELSE NoTask,
                                    ids |-> IF sweep THEN taskIndex ELSE {},
                                    with |-> together],
                            ![d].with = together]
            /\ UNCHANGED <<taskIndex, notCaller>>

\* the next store call of the method the caller is in
next_store_call(c) ==
    LET self == caller[c]
        Idle == [self EXCEPT !.pc = "idle"]
    IN  /\ \/ /\ self.pc = "sadd"
              /\ taskIndex' = taskIndex \cup {self.id}
              /\ caller' = [caller EXCEPT ![c] = Idle]
              /\ UNCHANGED tasks
           \/ /\ self.pc = "srem"
              /\ taskIndex' = taskIndex \ {self.id}
              /\ caller' = [caller EXCEPT ![c] = Idle]
              /\ UNCHANGED tasks
           \/ /\ self.pc = "set"
              /\ tasks' = [tasks EXCEPT ![self.id] = Mutated(self.op, self.id, self.task)]
              /\ caller' = [caller EXCEPT ![c] = Idle]
              /\ UNCHANGED taskIndex
           \/ /\ self.pc = "loop"
              /\ self.ids = {}
              /\ caller' = [caller EXCEPT ![c] = Idle]
              /\ UNCHANGED <<tasks, taskIndex>>
           \/ /\ self.pc = "loop"
              /\ \E task_id \in self.ids, old \in BOOLEAN :
                    LET task == get_task(tasks, task_id)
                        rest == [self EXCEPT !.ids = @ \ {task_id}]
                    IN  /\ old => (self.op = "cleanup_old_tasks" /\ task # NoTask)
                        /\ tasks' = IF old THEN [tasks EXCEPT ![task_id] = NoTask] ELSE tasks
                        /\ caller' = [caller EXCEPT ![c] =
                                        IF task = NoTask \/ old
                                        THEN [rest EXCEPT !.pc = "loop_srem", !.id = task_id]
                                        ELSE rest]
              /\ UNCHANGED taskIndex
           \/ /\ self.pc = "loop_srem"
              /\ taskIndex' = taskIndex \ {self.id}
              /\ caller' = [caller EXCEPT ![c] = [self EXCEPT !.pc = "loop", !.id = "none"]]
              /\ UNCHANGED tasks
        /\ UNCHANGED notCaller

\* two callers of the TaskManager of one store, interleaved at the store calls
SpecInterleave == Init /\ [][\E c \in 1..2 : begin_call(c) \/ next_store_call(c)]_vars

\* C37: the index covers the stored tasks: under every interleaving of
\* create_task, update_progress, complete_task, fail_task, delete_task,
\* get_all_tasks and cleanup_old_tasks, whenever no operation is in progress
\* every task id that has a stored task is a member of the task index.
C37_IndexCoversTasks ==
    (\A c \in 1..2 : caller[c].pc = "idle")
        => \A id \in TaskIds : tasks[id] # NoTask => id \in taskIndex

\* the same when each call runs to its end before the next begins
C37_OneAtATime ==
    [](\E c \in 1..2 : caller[c].pc = "idle") => []C37_IndexCoversTasks

\* C38: mutations of one task id are serializable: after two concurrent
\* calls among update_progress, complete_task and fail_task on one id that
\* read the same task, the stored task is the task that the two calls give
\* when applied one after the other, in one order or the other.
C38_Serializable ==
    \A c \in 1..2 :
        LET a == caller[c]
            b == caller[3 - c]
        IN  (/\ a.pc = "idle" /\ b.pc = "idle"
             /\ a.with /\ b.with
             /\ a.id = b.id
             /\ a.task = b.task)
                => tasks[a.id] \in { Mutated(b.op, a.id, Mutated(a.op, a.id, a.task)),
                                     Mutated(a.op, b.id, Mutated(b.op, b.id, b.task)) }

\* what does hold: the stored task is the task that one of the two calls
\* sets from the task it read
C38_LastWriteWins ==
    \A c \in 1..2 :
        LET a == caller[c]
            b == caller[3 - c]
        IN  (a.pc = "idle" /\ b.pc = "idle" /\ a.with /\ b.with /\ a.id = b.id)
                => tasks[a.id] \in { Mutated(a.op, a.id, a.task), Mutated(b.op, b.id, b.task) }


(***************************************************************************)
(* core/esb_utils.py, Counter.get_next: two threads of one process.  A     *)
(* call reads the clock before it takes the lock; the block under the lock *)
(* is one step.                                                            *)
(***************************************************************************)
get_next(t) ==
    /\ \/ /\ counter.thread[t].pc = "idle"
          /\ Len(counter.returned) + Cardinality({ u \in 1..2 : counter.thread[u].pc = "read" }) < MaxCalls
          /\ counter' = [counter EXCEPT !.thread[t] = [pc |-> "read", current_ms |-> counter.clock]]
       \/ /\ counter.thread[t].pc = "read"
          /\ LET current_ms == counter.thread[t].current_ms
                 value == (IF current_ms # counter.last_ms THEN 0 ELSE counter.value) + 1
                 seq_val == value % 1000000
             IN  counter' = [counter EXCEPT !.value = value,
                                            !.last_ms = current_ms,
                                            !.thread[t] = [pc |-> "idle", current_ms |-> 0],
                                            !.returned = Append(@, <<current_ms, seq_val>>)]
    /\ UNCHANGED notCounter

\* threads that call get_next while the clock goes from one millisecond to the next
SpecCounter ==
    /\ Init
    /\ [][
        \/ \E t \in 1..2 : get_next(t)
        \/ /\ counter.clock < MaxMs
           /\ counter' = [counter EXCEPT !.clock = @ + 1]
           /\ UNCHANGED notCounter
       ]_vars

\* C36: the response sequence generator is thread-safe: every (millisecond,
\* sequence) pair that get_next returns differs from every pair it returned
\* earlier in the process.
C36_PairsDiffer ==
    \A i, j \in DOMAIN counter.returned :
        counter.returned[i] = counter.returned[j] => i = j

\* what the lock does give: a pair differs from the pair returned just before it
C36_ConsecutiveDiffer ==
    \A i \in DOMAIN counter.returned :
        i > 1 => counter.returned[i] # counter.returned[i - 1]

====
